---- MODULE Spec2Model ----
(***************************************************************************)
(* A model of the indexer agent (packages/indexer-agent/src/agent.ts):     *)
(* the rule normalizer, the targetDeployments eventual, the deployment     *)
(* reconciler, the action reconciler and the POI dispute identifier.       *)
(*                                                                         *)
(* Each component is checked under its own specification (SpecRules,       *)
(* SpecTargets, SpecDeployments, SpecActions, SpecDisputes); the variables *)
(* of the other components keep their idle values there.                   *)
(***************************************************************************)
EXTENDS Integers, Sequences, FiniteSets, TLC

VARIABLES
    phase,      \* which operation has acted last ("init" before any)
    \* --- rule normalizer
    rulesIn,    \* rules argument of convertSubgraphBasedRulesToDeploymentBased
    subgraphs,  \* subgraphs argument
    buffer,     \* previousVersionBuffer argument
    rulesOut,   \* the returned (in-place mutated) rules list
    added,      \* for each appended copy, the index of the rule it was copied from
    \* --- agent configuration
    offchainSubgraphs,  \* Agent.offchainSubgraphs, the startup offchain list
    netSpec,            \* per network: networkSubgraph, allocateOnNetworkSubgraph,
                        \* allocationManagementMode
    \* --- values held by the eventuals
    indexingRules,      \* per network, the rules list
    decisions,          \* networkDeploymentAllocationDecisions, per network
    targetDeployments,  \* the array held by the targetDeployments eventual
    activeDeployments,  \* the array held by the activeDeployments eventual
    eligibleAllocations,\* recently closed and active allocations of the cycle
    activeAllocations,  \* the value held by the activeAllocations eventual, per network
    \* --- the protocol networks, as the collaborators report them
    chain,      \* per network: the ACTIVE allocations networkMonitor.allocations
                \* returns now, and the current epoch values
    \* --- POI dispute identification
    disputableAllocations,  \* the disputableAllocations snapshot of one network
    disputeStore,           \* the POI disputes the operator's store keeps
    runs,                   \* what each identifyPotentialDisputes invocation did
    \* --- construction and startup
    networksArg,    \* the networks argument of the constructor
    operatorsArg,   \* the operators argument of the constructor
    agent,          \* "none", "created", or "threw" (the constructor threw)
    startup,        \* where start() is: its stage, the state of the stage's calls
    tree,           \* buildEventualTree() has run
    startTrace,     \* the calls of start(), as they began and ended
    \* --- the top-level pipe
    snapshots,      \* how many snapshots the join has produced
    mailbox,        \* the snapshot waiting for the pipe body, 0 when none
    stalled,        \* the pipe invokes its body no more
    cycles,         \* the invocations of the pipe body
    body,           \* where the running invocation is
    inflight,       \* the work of the body that runs on with nothing awaiting it
    trace,          \* the calls of the pipe body, as they began and ended
    \* --- the join that feeds the pipe
    produced,       \* the inputs of the join that have produced a value
    \* --- the work queue of reconcileDeployments
    queue,          \* where reconcileDeployments is, the tasks waiting and running
    graphNodeOps,   \* the ensure and remove calls in progress and completed
    \* --- the query server
    whitelist,      \* the whitelist option of createServer
    handled,        \* the POST /subgraphs/id/:id requests handled, with their answers
    \* --- what the operations did
    outcome,    \* "none", "ok" (returned / produced a value) or "error" (threw)
    calls,      \* the collaborator calls issued by the last operation, in order
    before      \* the eventual values as they were when the last operation began

rulesVars == <<rulesIn, subgraphs, buffer, rulesOut, added>>
configVars == <<offchainSubgraphs, netSpec>>
eventualVars ==
    <<indexingRules, decisions, targetDeployments, activeDeployments,
      eligibleAllocations, activeAllocations>>

disputeVars == <<disputableAllocations, disputeStore, runs>>

startVars == <<networksArg, operatorsArg, agent, startup, tree, startTrace>>
pipeVars == <<snapshots, mailbox, stalled, cycles, body, inflight, trace>>
joinVars == <<produced>>
queueVars == <<queue, graphNodeOps>>
serverVars == <<whitelist, handled>>
lifecycleVars == <<startVars, pipeVars, joinVars, queueVars, serverVars>>

vars ==
    <<phase, rulesVars, configVars, eventualVars, chain, disputeVars, lifecycleVars,
      outcome, calls, before>>

otherThanStart ==
    <<phase, rulesVars, configVars, eventualVars, chain, disputeVars, pipeVars,
      joinVars, queueVars, serverVars, outcome, calls, before>>
otherThanPipe ==
    <<phase, rulesVars, configVars, eventualVars, chain, disputeVars, startVars,
      joinVars, queueVars, serverVars, outcome, calls, before>>
otherThanQueue ==
    <<phase, rulesVars, configVars, eventualVars, chain, disputeVars, startVars,
      pipeVars, joinVars, serverVars, outcome, calls, before>>

\* ---------------------------------------------------------------- bounds
MaxRules == 2
NumDeployments == 2
NumSubgraphs == 2
NumNetworks == 2
MaxNetworkRules == 1
MaxDeploymentList == 2

DeploymentIds == 1..NumDeployments
SubgraphIds == 1..NumSubgraphs
Networks == 1..NumNetworks

\* ------------------------------------------------------- helpers on lists
Range(s) == {s[i] : i \in 1..Len(s)}

\* JS null / undefined of an optional number.
Null == 0 - 1

\* Array.prototype.findIndex for a predicate given as the set of matching indexes:
\* the least matching index, 0 when none (JS: -1).
FirstIndex(matching) ==
    IF matching = {} THEN 0 ELSE CHOOSE i \in matching : \A j \in matching : i <= j

\* Array.prototype.filter: the subsequence of s at the indexes in keep, in order.
RECURSIVE FilterIdx(_, _, _)
FilterIdx(s, keep, i) ==
    IF i > Len(s) THEN <<>>
    ELSE (IF i \in keep THEN <<s[i]>> ELSE <<>>) \o FilterIdx(s, keep, i + 1)

\* ------------------------------------------------ SubgraphDeploymentID
\* A rule identifier is a string: 'global', a subgraph id, or a deployment id in
\* one of its two renderings (bytes32 hex, or the base58 ipfs hash).
GlobalIdentifier == [form |-> "global", id |-> 0]
SubgraphIdentifier(s) == [form |-> "subgraph", id |-> s]
DeploymentIdentifiers == [form : {"hex", "ipfs"}, id : DeploymentIds]

\* new SubgraphDeploymentID(identifier) accepts both renderings of a deployment
\* and throws on anything else.
IsDeploymentIdentifier(identifier) == identifier.form \in {"hex", "ipfs"}

\* new SubgraphDeploymentID(identifier): the object, known by its bytes32.
NewSubgraphDeploymentID(identifier) == [bytes32 |-> identifier.id]

\* SubgraphDeploymentID.toString(): the ipfs hash rendering.
DeploymentToString(deployment) == [form |-> "ipfs", id |-> deployment.bytes32]

\* ------------------------------------------------------- rule normalizer
\* deploymentRuleInList comparing the stored identifier string as it is, without
\* parsing it into a SubgraphDeploymentID first.
deploymentRuleInList_Unparsed(list, deployment) ==
    \E i \in 1..Len(list) :
        /\ list[i].identifierType = "deployment"
        /\ list[i].identifier = DeploymentToString(deployment)

\* deploymentRuleInList comparing the stored identifier string with the
\* deployment's bytes32 rendering.
deploymentRuleInList_Bytes32Only(list, deployment) ==
    \E i \in 1..Len(list) :
        /\ list[i].identifierType = "deployment"
        /\ list[i].identifier = [form |-> "hex", id |-> deployment.bytes32]

deploymentRuleInList(list, deployment) ==
    \E i \in 1..Len(list) :
        /\ list[i].identifierType = "deployment"
        /\ DeploymentToString(NewSubgraphDeploymentID(list[i].identifier))
              = DeploymentToString(deployment)

\* subgraphs.find(subgraph => subgraph.id == rule.identifier)
FindSubgraph(sgs, identifier) ==
    LET m == {i \in 1..Len(sgs) : SubgraphIdentifier(sgs[i].id) = identifier}
    IN  FirstIndex(m)

\* ruleSubgraph.versions.find(version => version.version == n)
FindVersion(sg, n) ==
    FirstIndex({i \in 1..Len(sg.versions) : sg.versions[i].version = n})

\* Math.floor(Date.now() / 1000)
currentTimestamp == 10

\* The buffer test with >= in place of >.
IsRecent_Inclusive(createdAt, previousVersionBuffer) ==
    createdAt >= currentTimestamp - previousVersionBuffer

IsRecent(createdAt, previousVersionBuffer) ==
    createdAt > currentTimestamp - previousVersionBuffer

\* The body of rules.map(rule => ...) for the rule at index i: st.rules is the
\* list mutated in place so far, st.toAdd the copies collected so far.
ConvertRule(st, i, sgs, previousVersionBuffer) ==
    LET rule == st.rules[i]
        si == FindSubgraph(sgs, rule.identifier)
    IN
    IF rule.identifierType # "subgraph" THEN st
    ELSE IF si = 0 THEN st
    ELSE
      LET ruleSubgraph == sgs[si]
          latestVersion == ruleSubgraph.versionCount - 1
          li == FindVersion(ruleSubgraph, latestVersion)
      IN
      IF li = 0 THEN st
      ELSE
        LET latestDeploymentVersion == ruleSubgraph.versions[li]
            rewritten ==
              IF ~deploymentRuleInList(st.rules, latestDeploymentVersion.deployment)
              THEN [rule EXCEPT
                      !.identifier = DeploymentToString(latestDeploymentVersion.deployment),
                      !.identifierType = "deployment"]
              ELSE rule
            rules1 == [st.rules EXCEPT ![i] = rewritten]
            pi == FindVersion(ruleSubgraph, latestVersion - 1)
        IN
        IF /\ IsRecent(latestDeploymentVersion.createdAt, previousVersionBuffer)
           /\ pi # 0
           /\ ~deploymentRuleInList(rules1, ruleSubgraph.versions[pi].deployment)
        THEN [rules |-> rules1,
              toAdd |-> Append(st.toAdd,
                  [rewritten EXCEPT
                     !.identifier = DeploymentToString(ruleSubgraph.versions[pi].deployment),
                     !.identifierType = "deployment"]),
              from |-> Append(st.from, i)]
        ELSE [rules |-> rules1, toAdd |-> st.toAdd, from |-> st.from]

RECURSIVE ConvertFrom(_, _, _, _)
ConvertFrom(st, i, sgs, previousVersionBuffer) ==
    IF i > Len(st.rules) THEN st
    ELSE ConvertFrom(ConvertRule(st, i, sgs, previousVersionBuffer), i + 1,
                     sgs, previousVersionBuffer)

\* convertSubgraphBasedRulesToDeploymentBased: [rules, from], rules being the
\* returned list (the input mutated in place, followed by toAdd) and from the
\* source index of each appended copy.
convertSubgraphBasedRulesToDeploymentBased(rules, sgs, previousVersionBuffer) ==
    LET st == ConvertFrom([rules |-> rules, toAdd |-> <<>>, from |-> <<>>], 1,
                          sgs, previousVersionBuffer)
    IN  [rules |-> st.rules \o st.toAdd, from |-> st.from]

\* ------------------------------------------- inputs of the rule normalizer
BufferValues == {3, 4}
CreatedAtValues == {currentTimestamp - 3, currentTimestamp - 2}
OldCreatedAt == currentTimestamp - 9

RuleIdentifiers ==
    {GlobalIdentifier} \cup DeploymentIdentifiers
        \cup {SubgraphIdentifier(s) : s \in SubgraphIds}

IdentifierTypeOf(identifier) ==
    CASE identifier.form = "global" -> "group"
      [] identifier.form = "subgraph" -> "subgraph"
      [] OTHER -> "deployment"

\* Lists of at most MaxRules identifiers, no identifier twice: the rules table
\* holds one rule per (protocolNetwork, identifier).
IdentifierLists ==
    UNION {{s \in [1..n -> RuleIdentifiers] :
               \A i, j \in 1..n : s[i] = s[j] => i = j} : n \in 0..MaxRules}

MakeRule(k, identifier, network, basis) ==
    [id |-> k,
     identifierType |-> IdentifierTypeOf(identifier),
     identifier |-> identifier,
     decisionBasis |-> basis,
     protocolNetwork |-> network]

\* The versions of a subgraph, oldest first: none, one, or two.
Version(n, t, d) == [version |-> n, createdAt |-> t, deployment |-> [bytes32 |-> d]]

VersionLists ==
    {<<>>}
      \cup {<<Version(0, t, d)>> : t \in CreatedAtValues, d \in DeploymentIds}
      \cup {<<Version(0, OldCreatedAt, d0), Version(1, t, d1)>> :
               t \in CreatedAtValues, d0 \in DeploymentIds, d1 \in DeploymentIds}

MakeSubgraph(s, versions) ==
    [id |-> s, versionCount |-> Len(versions), versions |-> versions]

\* networkMonitor.subgraphs(subgraphRuleIds): the subgraphs found among those the
\* rules name.
SubgraphRuleIds(ids) ==
    {s \in SubgraphIds : \E i \in 1..Len(ids) : ids[i] = SubgraphIdentifier(s)}

\* The values of the variables an operation does not use.
IdleRules ==
    /\ rulesIn = <<>>
    /\ subgraphs = <<>>
    /\ buffer = 0
    /\ rulesOut = <<>>
    /\ added = <<>>

IdleConfig ==
    /\ offchainSubgraphs = <<>>
    /\ netSpec = <<>>

IdleEventuals ==
    /\ indexingRules = <<>>
    /\ decisions = <<>>
    /\ targetDeployments = <<>>
    /\ activeDeployments = <<>>
    /\ eligibleAllocations = <<>>
    /\ activeAllocations = <<>>

IdleDisputes ==
    /\ disputableAllocations = <<>>
    /\ disputeStore = {}
    /\ runs = <<>>

NoStartup == [stage |-> "none", status |-> <<>>, failed |-> "no"]

IdleBody == [step |-> "idle", called |-> FALSE, returned |-> {}]

IdleStart ==
    /\ networksArg = <<>>
    /\ operatorsArg = <<>>
    /\ agent = "none"
    /\ startup = NoStartup
    /\ tree = FALSE
    /\ startTrace = <<>>

IdlePipe ==
    /\ snapshots = 0
    /\ mailbox = 0
    /\ stalled = FALSE
    /\ cycles = <<>>
    /\ body = IdleBody
    /\ inflight = {}
    /\ trace = <<>>

NoQueue == [stage |-> "none", deploy |-> 0, remove |-> 0, pending |-> 0, running |-> 0,
     settling |-> 0, done |-> 0]

NoOps == [ensure |-> 0, remove |-> 0, removed |-> 0, ensureFailed |-> FALSE, removeFailed |-> FALSE]

IdleJoin == produced = {}

IdleQueue ==
    /\ queue = NoQueue
    /\ graphNodeOps = NoOps

IdleServer ==
    /\ whitelist = {}
    /\ handled = <<>>

InitRules ==
    /\ IdleStart
    /\ IdlePipe
    /\ IdleJoin
    /\ IdleServer
    /\ IdleQueue
    /\ IdleDisputes
    /\ IdleConfig
    /\ IdleEventuals
    /\ chain = <<>>
    /\ outcome = "none"
    /\ calls = <<>>
    /\ before = <<>>
    /\ \E ids \in IdentifierLists, b \in BufferValues :
      \E present \in SUBSET SubgraphRuleIds(ids) :
        \E vl \in [present -> VersionLists] :
          /\ rulesIn = [i \in 1..Len(ids) |-> MakeRule(i, ids[i], 1, "rules")]
          /\ subgraphs =
               FilterIdx([s \in 1..NumSubgraphs |->
                            MakeSubgraph(s, IF s \in present THEN vl[s] ELSE <<>>)],
                         present, 1)
          /\ buffer = b
          /\ rulesOut = <<>>
          /\ added = <<>>
          /\ phase = "init"

\* rules = convertSubgraphBasedRulesToDeploymentBased(rules, subgraphs, buffer)
Convert ==
    /\ phase = "init"
    /\ LET r == convertSubgraphBasedRulesToDeploymentBased(rulesIn, subgraphs, buffer)
       IN  /\ rulesOut' = r.rules
           /\ added' = r.from
    /\ phase' = "converted"
    /\ outcome' = "ok"
    /\ UNCHANGED <<rulesIn, subgraphs, buffer, configVars, eventualVars, chain,
                   disputeVars, lifecycleVars, calls, before>>

NextRules == Convert

SpecRules == InitRules /\ [][NextRules]_vars

\* The conversion applied to the list it returned, with the same subgraphs,
\* buffer and current time.
ConvertAgain ==
    /\ phase = "converted"
    /\ LET r == convertSubgraphBasedRulesToDeploymentBased(rulesOut, subgraphs, buffer)
       IN  /\ rulesOut' = r.rules
           /\ added' = r.from
    /\ before' = [rulesOut |-> rulesOut, added |-> added]
    /\ phase' = "again"
    /\ UNCHANGED <<rulesIn, subgraphs, buffer, configVars, eventualVars, chain,
                   disputeVars, lifecycleVars, calls, outcome>>

NextRulesTwice ==
    \/ Convert
    \/ ConvertAgain

SpecRulesTwice == InitRules /\ [][NextRulesTwice]_vars

(***************************************************************************)
(* The targetDeployments eventual.                                         *)
(***************************************************************************)
\* A SubgraphDeploymentID as a JavaScript object: ref tells one object from
\* another, bytes32 is its value. Two objects may carry the same bytes32.
DeploymentObject(src, n, k, d) ==
    [ref |-> [src |-> src, net |-> n, idx |-> k], bytes32 |-> d]

Bytes32Of(list) == {list[i].bytes32 : i \in 1..Len(list)}

\* Object.values(networkMapped).flat(): the per-network lists, concatenated in
\* key order.
RECURSIVE FlatFrom(_, _)
FlatFrom(byNetwork, n) ==
    IF n > Len(byNetwork) THEN <<>> ELSE byNetwork[n] \o FlatFrom(byNetwork, n + 1)

Flat(byNetwork) == FlatFrom(byNetwork, 1)

\* Set.prototype.add on a Set of objects, kept in insertion order: an object is
\* already in the set only if it is the very same object.
SetAdd(set, obj) ==
    IF \E i \in 1..Len(set) : set[i].ref = obj.ref THEN set ELSE Append(set, obj)

RECURSIVE SetAddAll(_, _, _)
SetAddAll(set, objs, i) ==
    IF i > Len(objs) THEN set ELSE SetAddAll(SetAdd(set, objs[i]), objs, i + 1)

\* The rules with decisionBasis OFFCHAIN, all networks.
OffchainRules(rulesByNetwork) ==
    LET all == Flat(rulesByNetwork)
    IN  FilterIdx(all, {i \in 1..Len(all) : all[i].decisionBasis = "offchain"}, 1)

\* The body of targetDeployments' tryMap. [ok, value]: ok is FALSE when
\* new SubgraphDeploymentID(rule.identifier) throws, and then no value is produced.
TargetDeploymentIDs(rulesByNetwork, decisionsByNetwork, offchain) ==
    LET allDecisions == Flat(decisionsByNetwork)
        toAllocate == FilterIdx(allDecisions,
                         {i \in 1..Len(allDecisions) : allDecisions[i].toAllocate = TRUE}, 1)
        fromDecisions ==
            SetAddAll(<<>>, [i \in 1..Len(toAllocate) |-> toAllocate[i].deployment], 1)
        offRules == OffchainRules(rulesByNetwork)
        fromRules ==
            [i \in 1..Len(offRules) |->
                DeploymentObject("rule", offRules[i].protocolNetwork, offRules[i].id,
                                 NewSubgraphDeploymentID(offRules[i].identifier).bytes32)]
    IN  IF \E i \in 1..Len(offRules) : ~IsDeploymentIdentifier(offRules[i].identifier)
        THEN [ok |-> FALSE, value |-> <<>>]
        ELSE [ok |-> TRUE,
              value |-> SetAddAll(SetAddAll(fromDecisions, fromRules, 1), offchain, 1)]

\* ---------------------------------------------------- inputs of the eventual
DecisionBases == {"rules", "offchain"}

\* The rules lists of one network: at most MaxNetworkRules rules.
NetworkRuleLists(n) ==
    UNION {{[i \in 1..k |-> MakeRule(i, ids[i], n, bases[i])] :
               ids \in {s \in [1..k -> RuleIdentifiers] :
                           \A i, j \in 1..k : s[i] = s[j] => i = j},
               bases \in [1..k -> DecisionBases]} : k \in 0..MaxNetworkRules}

\* The decisions of one network: evaluateDeployments returns one decision per
\* deployment of the network.
DecisionLists(n) ==
    {FilterIdx([d \in 1..NumDeployments |->
                  [deployment |-> DeploymentObject("decision", n, d, d),
                   toAllocate |-> (f[d] = "yes"),
                   ruleMatch  |-> [rule |-> [allocationLifetime |-> Null]]]],
               {d \in DeploymentIds : f[d] # "none"}, 1) :
        f \in [DeploymentIds -> {"none", "yes", "no"}]}

\* The startup offchain list: some of the deployments.
OffchainLists ==
    {FilterIdx([d \in 1..NumDeployments |-> DeploymentObject("startup", 0, d, d)], S, 1) :
        S \in SUBSET DeploymentIds}

\* NetworkMapped values: one list per network, each network with its own.
RECURSIVE NetworkMappedFrom(_, _)
NetworkMappedFrom(lists, n) ==
    IF n > NumNetworks THEN {<<>>}
    ELSE {<<l>> \o rest : l \in lists[n], rest \in NetworkMappedFrom(lists, n + 1)}

RulesByNetwork == NetworkMappedFrom([n \in Networks |-> NetworkRuleLists(n)], 1)
DecisionsByNetwork == NetworkMappedFrom([n \in Networks |-> DecisionLists(n)], 1)

InitTargets ==
    /\ IdleStart
    /\ IdlePipe
    /\ IdleJoin
    /\ IdleServer
    /\ IdleQueue
    /\ IdleDisputes
    /\ IdleRules
    /\ phase = "init"
    /\ outcome = "none"
    /\ calls = <<>>
    /\ before = <<>>
    /\ netSpec = <<>>
    /\ offchainSubgraphs \in OffchainLists
    /\ indexingRules \in RulesByNetwork
    /\ decisions \in DecisionsByNetwork
    /\ targetDeployments = <<>>
    /\ activeDeployments = <<>>
    /\ eligibleAllocations = <<>>
    /\ activeAllocations = <<>>
    /\ chain = <<>>

\* One derivation of the targetDeployments eventual: on a throw onError runs and
\* the eventual keeps the value it had.
ComputeTargetDeployments ==
    /\ phase = "init"
    /\ LET r == TargetDeploymentIDs(indexingRules, decisions, offchainSubgraphs)
       IN  /\ outcome' = IF r.ok THEN "ok" ELSE "error"
           /\ targetDeployments' = IF r.ok THEN r.value ELSE targetDeployments
    /\ phase' = "targets"
    /\ UNCHANGED <<rulesVars, configVars, indexingRules, decisions, activeDeployments,
                   eligibleAllocations, activeAllocations, chain, disputeVars,
                   lifecycleVars, calls, before>>

NextTargets == ComputeTargetDeployments

SpecTargets == InitTargets /\ [][NextTargets]_vars

(***************************************************************************)
(* The deployment reconciler.                                              *)
(***************************************************************************)
deploymentInList(list, deployment) ==
    \E i \in 1..Len(list) : list[i].bytes32 = deployment.bytes32

\* array.findIndex(v => value.bytes32 === v.bytes32) === index
uniqueDeploymentsOnly(value, index, array) ==
    FirstIndex({i \in 1..Len(array) : array[i].bytes32 = value.bytes32}) = index

\* A uniqueDeployments that keeps every entry.
uniqueDeployments_KeepAll(deployments) == deployments

uniqueDeployments(deployments) ==
    FilterIdx(deployments,
              {i \in 1..Len(deployments) :
                  uniqueDeploymentsOnly(deployments[i], i, deployments)}, 1)

\* if (!deploymentInList(list, d)) list.push(d), for each d of ds in turn.
RECURSIVE PushMissing(_, _, _)
PushMissing(list, ds, i) ==
    IF i > Len(ds) THEN list
    ELSE PushMissing(IF deploymentInList(list, ds[i]) THEN list ELSE Append(list, ds[i]),
                     ds, i + 1)

\* network.networkSubgraph.deployment.id of the networks that have one, in
\* network order; 0 stands for an undefined networkSubgraph.deployment.
NetworkSubgraphDeployments(specs) ==
    LET all == [n \in 1..Len(specs) |->
                   DeploymentObject("networkSubgraph", n, 0, specs[n].networkSubgraph)]
    IN  FilterIdx(all, {n \in 1..Len(specs) : specs[n].networkSubgraph # 0}, 1)

\* A deploy filter that keeps every target deployment.
DeployFilter_All(deployment, activeU) == TRUE

\* The predicate of targetDeployments.filter(...) that computes deploy.
DeployFilter(deployment, activeU) == ~deploymentInList(activeU, deployment)

\* The remove filter without its eligible-allocations clause.
RemoveFilter_TargetOnly(deployment, targetU, eligibleAllocationDeployments) ==
    ~deploymentInList(targetU, deployment)

\* The predicate of activeDeployments.filter(...) that computes remove.
RemoveFilter(deployment, targetU, eligibleAllocationDeployments) ==
    /\ ~deploymentInList(targetU, deployment)
    /\ ~deploymentInList(eligibleAllocationDeployments, deployment)

\* The callbacks of the multiNetworks.map(...) call that opens
\* reconcileDeployments push each network subgraph deployment to
\* targetDeployments. The call is not awaited: a map that invokes its callback
\* at once runs them before the statement that follows (TRUE); a map that first
\* awaits (p-reduce) runs them once reconcileDeployments has reached its own
\* first await, after deploy and remove have been computed (FALSE).
MapCallbackRunsAtOnce == BOOLEAN

\* reconcileDeployments up to its first await. array: the caller's
\* targetDeployments array after the pushes made to it; deploy, remove: the
\* lists computed at lines 890-897. The callbacks close over the parameter
\* targetDeployments, which line 864 reassigns: a late callback pushes to the
\* deduplicated list, which nothing reads after deploy and remove are computed.
reconcileDeployments(active, target, eligible, specs, offchain, atOnce) ==
    LET withNetworkSubgraphs ==
            IF atOnce THEN PushMissing(target, NetworkSubgraphDeployments(specs), 1)
            ELSE target
        array == PushMissing(withNetworkSubgraphs, offchain, 1)
        activeU == uniqueDeployments(active)
        targetU == uniqueDeployments(array)
        eligibleAllocationDeployments ==
            uniqueDeployments([i \in 1..Len(eligible) |-> eligible[i].subgraphDeployment.id])
        deploy == FilterIdx(targetU,
                     {i \in 1..Len(targetU) : DeployFilter(targetU[i], activeU)}, 1)
        remove == FilterIdx(activeU,
                     {i \in 1..Len(activeU) :
                         RemoveFilter(activeU[i], targetU, eligibleAllocationDeployments)}, 1)
    IN  [array |-> array, deploy |-> deploy, remove |-> remove]

EnsureCall(deployment) == [op |-> "ensure", net |-> 0, deployment |-> deployment.bytes32]
RemoveCall(deployment) == [op |-> "remove", net |-> 0, deployment |-> deployment.bytes32]

\* --------------------------------------------- inputs of reconcileDeployments
\* Lists of at most MaxDeploymentList deployments, a deployment possibly twice.
DeploymentLists(src) ==
    UNION {{[i \in 1..k |-> DeploymentObject(src, 0, i, ds[i])] :
               ds \in [1..k -> DeploymentIds]} : k \in 0..MaxDeploymentList}

AllocationLists ==
    {[i \in 1..Len(l) |-> [id |-> i, subgraphDeployment |-> [id |-> l[i]]]] :
        l \in DeploymentLists("allocation")}

\* The network specifications that differ in the network subgraph only.
NetworkSubgraphSpecs ==
    [Networks -> [networkSubgraph : {0} \cup DeploymentIds,
                  allocateOnNetworkSubgraph : {FALSE},
                  allocationManagementMode : {"auto"}]]

InitDeployments ==
    /\ IdleStart
    /\ IdlePipe
    /\ IdleJoin
    /\ IdleServer
    /\ IdleQueue
    /\ IdleDisputes
    /\ IdleRules
    /\ phase = "init"
    /\ outcome = "none"
    /\ calls = <<>>
    /\ before = <<>>
    /\ offchainSubgraphs \in OffchainLists
    /\ netSpec \in NetworkSubgraphSpecs
    /\ indexingRules = <<>>
    /\ decisions = <<>>
    /\ targetDeployments \in DeploymentLists("target")
    /\ activeDeployments \in DeploymentLists("active")
    /\ eligibleAllocations \in AllocationLists
    /\ activeAllocations = <<>>
    /\ chain = <<>>

\* await this.reconcileDeployments(activeDeployments, targetDeployments,
\* eligibleAllocations): every ensure and every remove of the two queue.addAll
\* calls; it throws when a graphNode.remove rejects.
ReconcileDeployments ==
    /\ phase = "init"
    /\ \E atOnce \in MapCallbackRunsAtOnce, removeRejects \in BOOLEAN :
         LET r == reconcileDeployments(activeDeployments, targetDeployments,
                                       eligibleAllocations, netSpec, offchainSubgraphs,
                                       atOnce)
         IN  /\ targetDeployments' = r.array
             /\ calls' = [i \in 1..Len(r.deploy) |-> EnsureCall(r.deploy[i])]
                           \o [i \in 1..Len(r.remove) |-> RemoveCall(r.remove[i])]
             /\ outcome' = IF removeRejects /\ r.remove # <<>> THEN "error" ELSE "ok"
             /\ before' = [targetDeployments |-> targetDeployments, atOnce |-> atOnce]
    /\ phase' = "deployments"
    /\ UNCHANGED <<rulesVars, configVars, indexingRules, decisions, activeDeployments,
                   eligibleAllocations, activeAllocations, chain, disputeVars,
                   lifecycleVars>>

NextDeployments == ReconcileDeployments

SpecDeployments == InitDeployments /\ [][NextDeployments]_vars

\* ------------------------------- two reconcileDeployments calls in a row
\* Every graphNode.ensure and graphNode.remove of the call takes effect: the
\* next activeDeployments is what was active and not removed, followed by what
\* was ensured.
GraphNodeTakesEffect ==
    /\ phase = "deployments"
    /\ outcome = "ok"
    /\ LET kept == FilterIdx(activeDeployments,
                             {i \in 1..Len(activeDeployments) :
                                 ~\E k \in 1..Len(calls) :
                                     /\ calls[k].op = "remove"
                                     /\ calls[k].deployment = activeDeployments[i].bytes32}, 1)
           ensures == FilterIdx(calls, {k \in 1..Len(calls) : calls[k].op = "ensure"}, 1)
       IN  activeDeployments' =
               kept \o [k \in 1..Len(ensures) |->
                           DeploymentObject("graphNode", 0, k, ensures[k].deployment)]
    /\ before' = [targetDeployments |-> before.targetDeployments,
                  atOnce |-> before.atOnce, calls |-> calls]
    /\ phase' = "applied"
    /\ UNCHANGED <<rulesVars, configVars, indexingRules, decisions, targetDeployments,
                   eligibleAllocations, activeAllocations, chain, disputeVars,
                   lifecycleVars, outcome, calls>>

\* The reconcileDeployments call of the next cycle: the new activeDeployments,
\* the same targetDeployments array and eligibleAllocations.
ReconcileDeploymentsAgain ==
    /\ phase = "applied"
    /\ \E removeRejects \in BOOLEAN :
         LET r == reconcileDeployments(activeDeployments, targetDeployments,
                                       eligibleAllocations, netSpec, offchainSubgraphs,
                                       before.atOnce)
         IN  /\ targetDeployments' = r.array
             /\ calls' = [i \in 1..Len(r.deploy) |-> EnsureCall(r.deploy[i])]
                           \o [i \in 1..Len(r.remove) |-> RemoveCall(r.remove[i])]
             /\ outcome' = IF removeRejects /\ r.remove # <<>> THEN "error" ELSE "ok"
    /\ phase' = "again"
    /\ UNCHANGED <<rulesVars, configVars, indexingRules, decisions, activeDeployments,
                   eligibleAllocations, activeAllocations, chain, disputeVars,
                   lifecycleVars, before>>

NextFixpoint ==
    \/ ReconcileDeployments
    \/ GraphNodeTakesEffect
    \/ ReconcileDeploymentsAgain

SpecFixpoint == InitDeployments /\ [][NextFixpoint]_vars

(***************************************************************************)
(* The allocation reconciler.                                              *)
(***************************************************************************)
Max(a, b) == IF a >= b THEN a ELSE b

\* rule?.allocationLifetime ? rule.allocationLifetime : Math.max(1, max - 1):
\* the conditional tests truthiness, so null, undefined and 0 take the default.
desiredAllocationLifetime(decision, maxAllocationEpochs) ==
    LET allocationLifetime == decision.ruleMatch.rule.allocationLifetime
    IN  IF allocationLifetime # Null /\ allocationLifetime # 0
        THEN allocationLifetime
        ELSE Max(1, maxAllocationEpochs - 1)

\* The cross-check whose catch block returns false: a failed read drops the
\* allocation.
identifyExpiringAllocations_DropOnError(activeAllocs, decision, epoch, maxAllocationEpochs, getAllocation) ==
    LET lifetime == desiredAllocationLifetime(decision, maxAllocationEpochs)
        expiredAllocations ==
            FilterIdx(activeAllocs,
                      {i \in 1..Len(activeAllocs) :
                          epoch >= activeAllocs[i].createdAtEpoch + lifetime}, 1)
    IN  FilterIdx(expiredAllocations,
                  {i \in 1..Len(expiredAllocations) :
                      getAllocation[expiredAllocations[i].id] = "open"}, 1)

\* getAllocation maps an allocation id to what staking.getAllocation(id) gives:
\* "open" (closedAtEpoch = 0), "closed", or "error" (the call rejects).
identifyExpiringAllocations(activeAllocs, decision, epoch, maxAllocationEpochs, getAllocation) ==
    LET lifetime == desiredAllocationLifetime(decision, maxAllocationEpochs)
        expiredAllocations ==
            FilterIdx(activeAllocs,
                      {i \in 1..Len(activeAllocs) :
                          epoch >= activeAllocs[i].createdAtEpoch + lifetime}, 1)
    IN  FilterIdx(expiredAllocations,
                  {i \in 1..Len(expiredAllocations) :
                      getAllocation[expiredAllocations[i].id] \in {"open", "error"}}, 1)

AllocationIds(allocations) == [i \in 1..Len(allocations) |-> allocations[i].id]

\* The calls of the operator, with the arguments the agent passes.
CloseCall(n, decision, allocations, epoch) ==
    [op |-> "close", net |-> n, deployment |-> decision.deployment.bytes32,
     allocations |-> AllocationIds(allocations), epoch |-> epoch,
     mostRecentlyClosed |-> Null]
CreateCall(n, decision, mostRecentlyClosedAllocation) ==
    [op |-> "create", net |-> n, deployment |-> decision.deployment.bytes32,
     allocations |-> <<>>, epoch |-> Null,
     mostRecentlyClosed |-> mostRecentlyClosedAllocation]
RefreshCall(n, decision, allocations) ==
    [op |-> "refresh", net |-> n, deployment |-> decision.deployment.bytes32,
     allocations |-> AllocationIds(allocations), epoch |-> Null,
     mostRecentlyClosed |-> Null]

\* activeAllocations.find(...) in place of filter: the first allocation only.
activeDeploymentAllocations_FirstOnly(activeAllocs, decision) ==
    LET matching == {i \in 1..Len(activeAllocs) :
                        activeAllocs[i].subgraphDeployment.id.bytes32 =
                            decision.deployment.bytes32}
    IN  IF matching = {} THEN <<>> ELSE <<activeAllocs[FirstIndex(matching)]>>

\* activeAllocations.filter(allocation =>
\*   allocation.subgraphDeployment.id.bytes32 === decision.deployment.bytes32)
activeDeploymentAllocations(activeAllocs, decision) ==
    FilterIdx(activeAllocs,
              {i \in 1..Len(activeAllocs) :
                  activeAllocs[i].subgraphDeployment.id.bytes32 =
                      decision.deployment.bytes32}, 1)

\* (await networkMonitor.closedAllocations(deployment))[0]: undefined when the
\* list is empty.
mostRecentlyClosedAllocation(closedAllocs) ==
    IF closedAllocs = <<>> THEN Null ELSE closedAllocs[1]

\* The action logic without the test of expiringAllocations.length.
reconcileDeploymentAllocationAction_RefreshAlways(decision, epoch, maxAllocationEpochs, n, activeAllocs, getAllocation, closedAllocs) ==
    LET active == activeDeploymentAllocations(activeAllocs, decision)
    IN  IF ~decision.toAllocate
        THEN <<CloseCall(n, decision, active, epoch)>>
        ELSE IF Len(active) = 0
        THEN <<CreateCall(n, decision, mostRecentlyClosedAllocation(closedAllocs))>>
        ELSE <<RefreshCall(n, decision,
                           identifyExpiringAllocations(active, decision, epoch,
                                                       maxAllocationEpochs,
                                                       getAllocation))>>

\* The operator calls of one decision; activeAllocs is what
\* networkMonitor.allocations(ACTIVE) returns when the decision is processed,
\* closedAllocs what networkMonitor.closedAllocations(deployment) returns.
reconcileDeploymentAllocationAction(decision, epoch, maxAllocationEpochs, n, activeAllocs, getAllocation, closedAllocs) ==
    LET active == activeDeploymentAllocations(activeAllocs, decision)
    IN  IF ~decision.toAllocate
        THEN <<CloseCall(n, decision, active, epoch)>>
        ELSE IF Len(active) = 0
        THEN <<CreateCall(n, decision, mostRecentlyClosedAllocation(closedAllocs))>>
        ELSE LET expiringAllocations ==
                     identifyExpiringAllocations(active, decision, epoch,
                                                 maxAllocationEpochs, getAllocation)
             IN  IF Len(expiringAllocations) > 0
                 THEN <<RefreshCall(n, decision, expiringAllocations)>>
                 ELSE <<>>

\* Object.entries of the resolved map: an entry for every network.
ManualModeEntries_Awaited(decisionsByNetwork) == DOMAIN decisionsByNetwork

\* Object.entries(manualModeNetworks), as the network identifiers it yields.
\* manualModeNetworks is what mapNetworkMapped(...) returned, taken without
\* await: every other use in the agent awaits that call, so the value is the
\* pending Promise, an object with no own enumerable property.
ManualModeEntries(decisionsByNetwork) == {}

\* The decisions that remain after the loop of `delete` statements.
WithoutManualModeNetworks(decisionsByNetwork, specs) ==
    LET deleted == {n \in ManualModeEntries(decisionsByNetwork) :
                       specs[n].allocationManagementMode = "manual"}
    IN  [n \in (DOMAIN decisionsByNetwork) \ deleted |-> decisionsByNetwork[n]]

\* The guard with the assignment to toAllocate left out.
NetworkSubgraphGuard_Unforced(allocationDecisions, spec) == allocationDecisions

\* The callback of the awaited mapNetworkMapped call: it sets toAllocate of the
\* first decision on the network subgraph's deployment to false, in place.
NetworkSubgraphGuard(allocationDecisions, spec) ==
    IF spec.networkSubgraph # 0 /\ ~spec.allocateOnNetworkSubgraph
    THEN LET networkSubgraphIndex ==
                 FirstIndex({i \in 1..Len(allocationDecisions) :
                                allocationDecisions[i].deployment.bytes32 =
                                    spec.networkSubgraph})
         IN  IF networkSubgraphIndex >= 1
             THEN [allocationDecisions EXCEPT ![networkSubgraphIndex].toAllocate = FALSE]
             ELSE allocationDecisions
    ELSE allocationDecisions

\* pMap(allocationDecisions, decision => reconcileDeploymentAllocationAction(...));
\* the deployments have no closed allocation.
RECURSIVE DecisionCallsFrom(_, _, _, _, _, _, _)
DecisionCallsFrom(allocationDecisions, i, epoch, maxAllocationEpochs, n, activeAllocs, getAllocation) ==
    IF i > Len(allocationDecisions) THEN <<>>
    ELSE reconcileDeploymentAllocationAction(allocationDecisions[i], epoch,
                                             maxAllocationEpochs, n, activeAllocs,
                                             getAllocation, <<>>)
         \o DecisionCallsFrom(allocationDecisions, i + 1, epoch, maxAllocationEpochs,
                              n, activeAllocs, getAllocation)

\* The last mapNetworkMapped call, over the networks of the zipped map.
RECURSIVE NetworkCallsFrom(_, _, _, _)
NetworkCallsFrom(filtered, n, chains, getAllocation) ==
    IF n > NumNetworks THEN <<>>
    ELSE (IF n \in DOMAIN filtered
          THEN DecisionCallsFrom(filtered[n], 1, chains[n].epoch,
                                 chains[n].maxAllocationEpochs, n,
                                 chains[n].allocations, getAllocation)
          ELSE <<>>)
         \o NetworkCallsFrom(filtered, n + 1, chains, getAllocation)

\* reconcileActions: the decisions map as the call leaves it (the map and the
\* decisions in it are the caller's objects), the operator calls in order, and
\* whether zip4 found the four maps to cover the same networks.
reconcileActions(decisionsByNetwork, active, specs, chains, getAllocation) ==
    LET remaining == WithoutManualModeNetworks(decisionsByNetwork, specs)
        filtered  == [n \in DOMAIN remaining |-> NetworkSubgraphGuard(remaining[n], specs[n])]
    IN  IF DOMAIN remaining = {}
        THEN [decisions |-> remaining, calls |-> <<>>, ok |-> TRUE]
        ELSE IF DOMAIN filtered # DOMAIN active
        THEN [decisions |-> filtered, calls |-> <<>>, ok |-> FALSE]
        ELSE [decisions |-> filtered,
              calls |-> NetworkCallsFrom(filtered, 1, chains, getAllocation),
              ok |-> TRUE]

\* ------------------------------------------------- inputs of reconcileActions
MaxAllocations == 1
AllocationManagementModes == {"auto", "manual", "oversight"}
CreatedAtEpochs == {1}
CurrentEpochs == {3}
MaxAllocationEpochsValues == {3}
GetAllocationResults == {"open", "closed", "error"}

\* A network subgraph needs no allocateOnNetworkSubgraph variety when absent.
NetworkSpecs ==
    [Networks -> {s \in [networkSubgraph : {0} \cup DeploymentIds,
                         allocateOnNetworkSubgraph : BOOLEAN,
                         allocationManagementMode : AllocationManagementModes] :
                     s.networkSubgraph = 0 => ~s.allocateOnNetworkSubgraph}]

\* The ACTIVE allocations of network n, at most MaxAllocations of them.
ActiveAllocationLists(n) ==
    UNION {{[i \in 1..k |->
                [id |-> <<n, i>>,
                 subgraphDeployment |->
                     [id |-> DeploymentObject("allocation", n, i, a[i].deployment)],
                 createdAtEpoch |-> a[i].createdAtEpoch]] :
              a \in [1..k -> [deployment : DeploymentIds,
                              createdAtEpoch : CreatedAtEpochs]]} :
           k \in 0..MaxAllocations}

Chains(n) ==
    [allocations : ActiveAllocationLists(n), epoch : CurrentEpochs,
     maxAllocationEpochs : MaxAllocationEpochsValues]

ChainsByNetwork == NetworkMappedFrom([n \in Networks |-> Chains(n)], 1)

\* What staking.getAllocation answers in a cycle: the same for every allocation.
GetAllocationOf(result) ==
    [id \in {<<n, i>> : n \in Networks, i \in 1..(MaxAllocations + 1)} |-> result]

InitActions ==
    /\ IdleStart
    /\ IdlePipe
    /\ IdleJoin
    /\ IdleServer
    /\ IdleQueue
    /\ IdleDisputes
    /\ IdleRules
    /\ phase = "init"
    /\ outcome = "none"
    /\ calls = <<>>
    /\ before = <<>>
    /\ offchainSubgraphs = <<>>
    /\ netSpec \in NetworkSpecs
    /\ indexingRules = <<>>
    /\ decisions \in DecisionsByNetwork
    /\ targetDeployments = <<>>
    /\ activeDeployments = <<>>
    /\ eligibleAllocations = <<>>
    /\ chain \in ChainsByNetwork
    /\ activeAllocations = [n \in Networks |-> chain[n].allocations]

\* await this.reconcileActions(networkDeploymentAllocationDecisions,
\* activeAllocations, currentEpochNumber, maxAllocationEpochs)
ReconcileActions ==
    /\ phase = "init"
    /\ \E result \in GetAllocationResults :
         \E r \in {reconcileActions(decisions, activeAllocations, netSpec, chain,
                                    GetAllocationOf(result))} :
             /\ decisions' = r.decisions
             /\ calls' = r.calls
             /\ outcome' = IF r.ok THEN "ok" ELSE "error"
    /\ before' = [decisions |-> decisions]
    /\ phase' = "actions"
    /\ UNCHANGED <<rulesVars, configVars, indexingRules, targetDeployments,
                   activeDeployments, eligibleAllocations, activeAllocations, chain,
                   disputeVars, lifecycleVars>>

NextActions == ReconcileActions

SpecActions == InitActions /\ [][NextActions]_vars

(***************************************************************************)
(* POI dispute identification, for one network and its operator.           *)
(***************************************************************************)
\* operator.fetchPOIDisputes(status, minClosedEpoch, protocolNetwork)
fetchPOIDisputes(store, status, minClosedEpoch, protocolNetwork) ==
    {d \in store : /\ d.status = status
                   /\ d.closedEpoch >= minClosedEpoch
                   /\ d.protocolNetwork = protocolNetwork}

\* operator.storePoiDisputes(disputes): one row per allocation and network, a
\* row given again replaces the one kept.
storePoiDisputes(store, disputes) ==
    LET given == {[allocationID    |-> disputes[i].allocationID,
                   status          |-> disputes[i].status,
                   closedEpoch     |-> disputes[i].closedEpoch,
                   protocolNetwork |-> disputes[i].protocolNetwork] :
                     i \in 1..Len(disputes)}
    IN  {d \in store : ~\E g \in given : /\ g.allocationID = d.allocationID
                                         /\ g.protocolNetwork = d.protocolNetwork}
        \cup given

\* allocationRewardsPool(allocation): a new pool object (the k-th made in this
\* invocation) that holds the allocation's own subgraphDeployment.id object.
allocationRewardsPool(allocation, k) ==
    [ref |-> k,
     subgraphDeployment |-> allocation.subgraphDeployment.id,
     closedAtEpoch |-> allocation.closedAtEpoch,
     closedAtEpochStartBlockHash |-> allocation.closedAtEpochStartBlockHash,
     referencePOI |-> 0,
     referencePreviousPOI |-> 0]

\* The classification that looks at the closed epoch's reference POI only.
DisputeStatus_CurrentOnly(rewardsPool, allocation) ==
    IF rewardsPool.referencePOI = allocation.poi THEN "valid"
    ELSE IF rewardsPool.referencePOI = 0 \/ rewardsPool.referencePreviousPOI = 0
    THEN "reference_unavailable"
    ELSE "potential"

\* let status = ... ; if (status === 'potential' && (!ref || !prev)) ...
\* A POI that is missing (undefined or null) is 0.
DisputeStatus(rewardsPool, allocation) ==
    LET status == IF \/ rewardsPool.referencePOI = allocation.poi
                     \/ rewardsPool.referencePreviousPOI = allocation.poi
                  THEN "valid" ELSE "potential"
    IN  IF /\ status = "potential"
           /\ (rewardsPool.referencePOI = 0 \/ rewardsPool.referencePreviousPOI = 0)
        THEN "reference_unavailable"
        ELSE status

\* uniqueRewardsPools.find(pool => pool.subgraphDeployment ==
\* allocation.subgraphDeployment.id && pool.closedAtEpoch == allocation.closedAtEpoch):
\* the index of the pool, 0 when there is none. == on two objects is identity.
FindRewardsPool(uniqueRewardsPools, allocation) ==
    FirstIndex({i \in 1..Len(uniqueRewardsPools) :
                   /\ uniqueRewardsPools[i].subgraphDeployment.ref =
                          allocation.subgraphDeployment.id.ref
                   /\ uniqueRewardsPools[i].closedAtEpoch = allocation.closedAtEpoch})

\* A filter that takes every disputable allocation for new.
IsNewDisputable_All(allocation, alreadyProcessed) == TRUE

\* allocation => !alreadyProcessed.find(dispute => dispute.allocationID == allocation.id)
IsNewDisputable(allocation, alreadyProcessed) ==
    ~\E dispute \in alreadyProcessed : dispute.allocationID = allocation.id

\* A find that comes back empty is passed over.
ThrowsOnMissingPool_Never(rewardsPoolIndex) == FALSE

\* if (!rewardsPool) { throw Error(`No rewards pool found for deployment ...`) }
ThrowsOnMissingPool(rewardsPoolIndex) == rewardsPoolIndex = 0

\* One invocation. proofOfIndexing gives, for the k-th pool made, the two
\* reference POIs graphNode.proofOfIndexing returns for it. The result tells the
\* new allocations, the dispute records built, whether the invocation threw and
\* whether storePoiDisputes was called, the store it leaves, and the pools whose
\* blocks and reference POIs were fetched.
identifyPotentialDisputes(disputableAllocs, disputableEpoch, store, protocolNetwork, proofOfIndexing) ==
    LET alreadyProcessed ==
            fetchPOIDisputes(store, "potential", disputableEpoch, protocolNetwork)
            \cup fetchPOIDisputes(store, "valid", disputableEpoch, protocolNetwork)
        newDisputableAllocations ==
            FilterIdx(disputableAllocs,
                      {i \in 1..Len(disputableAllocs) :
                          IsNewDisputable(disputableAllocs[i], alreadyProcessed)}, 1)
        pools == SetAddAll(<<>>, [k \in 1..Len(newDisputableAllocations) |->
                                    allocationRewardsPool(newDisputableAllocations[k], k)],
                           1)
        withHash == FilterIdx(pools, {i \in 1..Len(pools) :
                                         pools[i].closedAtEpochStartBlockHash # 0}, 1)
        uniqueRewardsPools ==
            [i \in 1..Len(withHash) |->
                [withHash[i] EXCEPT
                    !.referencePOI = proofOfIndexing[withHash[i].ref][1],
                    !.referencePreviousPOI = proofOfIndexing[withHash[i].ref][2]]]
        fetched == [i \in 1..Len(uniqueRewardsPools) |->
                       [subgraphDeployment |-> uniqueRewardsPools[i].subgraphDeployment.bytes32,
                        closedAtEpoch |-> uniqueRewardsPools[i].closedAtEpoch]]
        missing == \E i \in 1..Len(newDisputableAllocations) :
                       ThrowsOnMissingPool(
                           FindRewardsPool(uniqueRewardsPools, newDisputableAllocations[i]))
        mapped ==
            FilterIdx(newDisputableAllocations,
                      {i \in 1..Len(newDisputableAllocations) :
                          FindRewardsPool(uniqueRewardsPools,
                                          newDisputableAllocations[i]) # 0}, 1)
        disputes ==
            [i \in 1..Len(mapped) |->
                LET allocation  == mapped[i]
                    rewardsPool ==
                        uniqueRewardsPools[FindRewardsPool(uniqueRewardsPools, allocation)]
                IN  [allocationID |-> allocation.id,
                     allocationProof |-> allocation.poi,
                     closedEpoch |-> allocation.closedAtEpoch,
                     closedEpochReferenceProof |-> rewardsPool.referencePOI,
                     previousEpochReferenceProof |-> rewardsPool.referencePreviousPOI,
                     status |-> DisputeStatus(rewardsPool, allocation),
                     protocolNetwork |-> protocolNetwork]]
    IN  IF Len(newDisputableAllocations) = 0
        THEN [new |-> <<>>, disputes |-> <<>>, threw |-> FALSE, stored |-> FALSE,
              store |-> store, pools |-> <<>>]
        ELSE IF missing
        THEN [new |-> AllocationIds(newDisputableAllocations), disputes |-> <<>>,
              threw |-> TRUE, stored |-> FALSE, store |-> store, pools |-> fetched]
        ELSE [new |-> AllocationIds(newDisputableAllocations), disputes |-> disputes,
              threw |-> FALSE, stored |-> TRUE,
              store |-> storePoiDisputes(store, disputes), pools |-> fetched]

\* --------------------------------------- inputs of identifyPotentialDisputes
MaxDisputable == 2
MaxRuns == 2
\* currentEpochNumber - poiDisputableEpochs of the cycles modelled.
disputableEpoch == 5
ClosedAtEpochs == {disputableEpoch}
AllocationPOIs == {1, 2}
ReferencePOIs == {0, 1, 2}

\* The disputable allocations of the network: each with its own
\* SubgraphDeploymentID object, its closedAtEpochStartBlockHash present (1) or
\* not (0).
DisputableAllocationLists ==
    UNION {{[i \in 1..k |->
                [id |-> <<1, i>>,
                 subgraphDeployment |->
                     [id |-> DeploymentObject("disputable", 1, i, a[i].deployment)],
                 closedAtEpoch |-> a[i].closedAtEpoch,
                 closedAtEpochStartBlockHash |-> a[i].closedAtEpochStartBlockHash,
                 poi |-> a[i].poi]] :
              a \in [1..k -> [deployment : DeploymentIds,
                              closedAtEpoch : ClosedAtEpochs,
                              closedAtEpochStartBlockHash : {0, 1},
                              poi : AllocationPOIs]]} :
           k \in 0..MaxDisputable}

InitDisputes ==
    /\ IdleStart
    /\ IdlePipe
    /\ IdleJoin
    /\ IdleServer
    /\ IdleQueue
    /\ IdleRules
    /\ IdleConfig
    /\ IdleEventuals
    /\ chain = <<>>
    /\ phase = "init"
    /\ outcome = "none"
    /\ calls = <<>>
    /\ before = <<>>
    /\ disputableAllocations \in DisputableAllocationLists
    /\ disputeStore = {}
    /\ runs = <<>>

\* await this.identifyPotentialDisputes(disputableAllocations, disputableEpoch,
\* operator, network), in one cycle after another with the same snapshot.
IdentifyPotentialDisputes ==
    /\ Len(runs) < MaxRuns
    /\ \E proofOfIndexing \in [1..MaxDisputable -> ReferencePOIs \X ReferencePOIs] :
         \E r \in {identifyPotentialDisputes(disputableAllocations, disputableEpoch,
                                             disputeStore, 1, proofOfIndexing)} :
             /\ disputeStore' = r.store
             /\ runs' = Append(runs, [new |-> r.new, disputes |-> r.disputes,
                                      threw |-> r.threw, stored |-> r.stored,
                                      pools |-> r.pools])
    /\ UNCHANGED <<phase, rulesVars, configVars, eventualVars, chain, outcome, calls,
                   before, disputableAllocations, lifecycleVars>>

NextDisputes == IdentifyPotentialDisputes

SpecDisputes == InitDisputes /\ [][NextDisputes]_vars

(***************************************************************************)
(* Construction and startup of the agent.                                  *)
(***************************************************************************)
\* The validity test of createMultiNetworks that compares the lengths only.
validInputs_LengthsOnly(networks, operators) == Len(networks) = Len(operators)

\* networks.length === operators.length && networks.every((network, index) =>
\*   network...networkIdentifier === operators[index]...networkIdentifier)
validInputs(networks, operators) ==
    /\ Len(networks) = Len(operators)
    /\ \A index \in 1..Len(networks) :
         networks[index].networkIdentifier = operators[index].networkIdentifier

\* new Agent(...): "created", or "threw" when createMultiNetworks throws.
NewAgent(networks, operators) ==
    IF validInputs(networks, operators) THEN "created" ELSE "threw"

\* The stages of start() with register ahead of the other per-network stages.
NextStageOf_RegisterFirst(stage) ==
    IF stage = "connect" THEN "register"
    ELSE IF stage = "register" THEN "rules"
    ELSE IF stage = "rules" THEN "subgraph"
    ELSE "tree"

\* The stages of start(), each one awaited before the next statement:
\* graphNode.connect, operator.ensureGlobalIndexingRule,
\* ensureNetworkSubgraphIsIndexing, network.register, buildEventualTree.
NextStageOf(stage) ==
    IF stage = "connect" THEN "rules"
    ELSE IF stage = "rules" THEN "subgraph"
    ELSE IF stage = "subgraph" THEN "register"
    ELSE "tree"

\* The calls a stage has to make, as it is entered: connect is one call of the
\* graph node (0); the others are one callback per network, and the callback of
\* ensureNetworkSubgraphIsIndexing makes no call for a network without a
\* network subgraph deployment.
StageEntry(stage, networks) ==
    IF stage = "connect" THEN [n \in {0} |-> "todo"]
    ELSE IF stage = "tree" THEN [n \in {} |-> "todo"]
    ELSE [n \in 1..Len(networks) |->
            IF stage = "subgraph" /\ networks[n].networkSubgraph = 0
            THEN "done" ELSE "todo"]

\* await this.multiNetworks.map(...) resolves when every callback has resolved.
StageComplete(status) == \A n \in DOMAIN status : status[n] = "done"

\* ------------------------------------------------ inputs of the constructor
\* Networks with distinct identifiers, each with a network subgraph deployment
\* configured (1) or not (0).
NetworkArgLists ==
    UNION {{l \in [1..k -> [networkIdentifier : Networks, networkSubgraph : {0, 1}]] :
               \A i, j \in 1..k :
                   l[i].networkIdentifier = l[j].networkIdentifier => i = j} :
           k \in 0..NumNetworks}

OperatorArgLists ==
    UNION {[1..k -> [networkIdentifier : Networks]] : k \in 0..NumNetworks}

InitStart ==
    /\ IdleRules
    /\ IdleConfig
    /\ IdleEventuals
    /\ IdleDisputes
    /\ IdlePipe
    /\ IdleJoin
    /\ IdleServer
    /\ IdleQueue
    /\ chain = <<>>
    /\ phase = "init"
    /\ outcome = "none"
    /\ calls = <<>>
    /\ before = <<>>
    /\ networksArg \in NetworkArgLists
    /\ operatorsArg \in OperatorArgLists
    /\ agent = "none"
    /\ startup = NoStartup
    /\ tree = FALSE
    /\ startTrace = <<>>

\* new Agent(logger, metrics, graphNode, operators, indexerManagement, networks,
\* offchainSubgraphs)
Construct ==
    /\ agent = "none"
    /\ agent' = NewAgent(networksArg, operatorsArg)
    /\ UNCHANGED <<networksArg, operatorsArg, startup, tree, startTrace>>
    /\ UNCHANGED otherThanStart

\* agent.start() is called and reaches graphNode.connect().
Start ==
    /\ agent = "created"
    /\ startup.stage = "none"
    /\ startup' = [stage |-> "connect", status |-> StageEntry("connect", networksArg),
                   failed |-> "no"]
    /\ UNCHANGED <<networksArg, operatorsArg, agent, tree, startTrace>>
    /\ UNCHANGED otherThanStart

\* The call of the stage for network n begins.
StageCall(n) ==
    /\ startup.failed = "no"
    /\ n \in DOMAIN startup.status
    /\ startup.status[n] = "todo"
    /\ startup' = [startup EXCEPT !.status[n] = "calling"]
    /\ startTrace' = Append(startTrace, [stage |-> startup.stage, net |-> n,
                                         kind |-> "start"])
    /\ UNCHANGED <<networksArg, operatorsArg, agent, tree>>
    /\ UNCHANGED otherThanStart

\* The call of the stage for network n resolves or rejects. A rejection makes
\* start() reject. After graphNode.ensure, ensureNetworkSubgraphIsIndexing
\* goes on to validateProviderNetworkIdentifier.
StageReturn(n) ==
    /\ startup.failed = "no"
    /\ n \in DOMAIN startup.status
    /\ startup.status[n] = "calling"
    /\ \E ok \in BOOLEAN :
         /\ startup' =
              IF ~ok THEN [startup EXCEPT !.failed = "rejected"]
              ELSE IF startup.stage = "subgraph"
              THEN [startup EXCEPT !.status[n] = "validating"]
              ELSE [startup EXCEPT !.status[n] = "done"]
         /\ startTrace' =
              Append(startTrace,
                     [stage |-> startup.stage, net |-> n,
                      kind |-> IF ~ok THEN "fail"
                               ELSE IF startup.stage = "subgraph" THEN "ensured"
                               ELSE "ok"])
    /\ UNCHANGED <<networksArg, operatorsArg, agent, tree>>
    /\ UNCHANGED otherThanStart

\* validateProviderNetworkIdentifier resolves, or rejects and the process exits.
Validated(n) ==
    /\ startup.failed = "no"
    /\ n \in DOMAIN startup.status
    /\ startup.status[n] = "validating"
    /\ \E ok \in BOOLEAN :
         /\ startup' = IF ok THEN [startup EXCEPT !.status[n] = "done"]
                       ELSE [startup EXCEPT !.failed = "exited"]
         /\ startTrace' = Append(startTrace, [stage |-> startup.stage, net |-> n,
                                              kind |-> IF ok THEN "ok" ELSE "fail"])
    /\ UNCHANGED <<networksArg, operatorsArg, agent, tree>>
    /\ UNCHANGED otherThanStart

\* The awaited stage has resolved: start() goes on to the next statement;
\* this.buildEventualTree() is the last one.
Advance ==
    /\ startup.failed = "no"
    /\ startup.stage \notin {"none", "tree"}
    /\ StageComplete(startup.status)
    /\ \E next \in {NextStageOf(startup.stage)} :
         /\ startup' = [startup EXCEPT !.stage = next,
                                       !.status = StageEntry(next, networksArg)]
         /\ tree' = (next = "tree")
         /\ startTrace' = IF next = "tree"
                          THEN Append(startTrace, [stage |-> "tree", net |-> 0,
                                                   kind |-> "ok"])
                          ELSE startTrace
    /\ UNCHANGED <<networksArg, operatorsArg, agent>>
    /\ UNCHANGED otherThanStart

NextStart ==
    \/ Construct
    \/ Start
    \/ \E n \in 0..NumNetworks : StageCall(n)
    \/ \E n \in 0..NumNetworks : StageReturn(n)
    \/ \E n \in 0..NumNetworks : Validated(n)
    \/ Advance

SpecStart == InitStart /\ [][NextStart]_vars

(***************************************************************************)
(* The top-level pipe: join({...}).pipe(async snapshot => {...}).          *)
(***************************************************************************)
MaxSnapshots == 3
MaxCycles == 2

\* A pipe that keeps the oldest pending value.
Mailbox_KeepOldest(pending, id) == IF pending = 0 THEN id ELSE pending

\* pipe keeps one pending value: a value that arrives replaces the one waiting.
Mailbox(pending, id) == id

\* A pipe that invokes its function while an invocation is running.
CanStart_Reentrant(b, pending, isStalled) == pending # 0 /\ ~isStalled

\* pipe invokes its function for the pending value when no invocation is
\* running. A pipe whose function rejected may have stopped for good.
CanStart(b, pending, isStalled) == b.step = "idle" /\ pending # 0 /\ ~isStalled

\* What a pipe does once its function has rejected: go on with the next value
\* (FALSE) or never invoke the function again (TRUE).
PipeStallsAfterRejection == BOOLEAN

At(step) == [step |-> step, called |-> FALSE, returned |-> {}]

\* The calls a step of the body awaits together: mapNetworkMapped runs its
\* callback for every network at once, and so does the mapNetworkMapped inside
\* reconcileActions; reconcileDeployments is one call.
CallsOf(step) == IF step = "deployments" THEN {0} ELSE Networks

\* The claim step that goes on to reconcileDeployments, the dispute step left out.
AfterClaim_SkipDisputes(ok) ==
    IF ~ok THEN [body |-> IdleBody, result |-> "rejected"]
    ELSE [body |-> At("deployments"), result |-> "running"]

\* Where the body goes when what it awaits returns (ok) or rejects (~ok): the
\* next position and what has become of the invocation.
\* await mapNetworkMapped(claimableAllocations, network.claimRebateRewards):
\* outside any try block.
AfterClaim(ok) ==
    IF ~ok THEN [body |-> IdleBody, result |-> "rejected"]
    ELSE [body |-> At("disputes"), result |-> "running"]

\* The dispute step whose catch block returns.
AfterDisputes_ReturnOnFailure(ok) ==
    IF ~ok THEN [body |-> IdleBody, result |-> "completed"]
    ELSE [body |-> At("deployments"), result |-> "running"]

\* try { await mapNetworkMapped(zipped, identifyPotentialDisputes) } catch { warn }
AfterDisputes(ok) == [body |-> At("deployments"), result |-> "running"]

\* The deployment step whose catch block does not return.
AfterDeployments_ContinueOnFailure(ok) ==
    [body |-> At("actions"), result |-> "running"]

\* try { await reconcileDeployments(...) } catch { warn; return }
AfterDeployments(ok) ==
    IF ~ok THEN [body |-> IdleBody, result |-> "completed"]
    ELSE [body |-> At("actions"), result |-> "running"]

\* try { await reconcileActions(...) } catch { warn; return }
AfterActions(ok) == [body |-> IdleBody, result |-> "completed"]

AfterStep(step, ok) ==
    IF step = "claim" THEN AfterClaim(ok)
    ELSE IF step = "disputes" THEN AfterDisputes(ok)
    ELSE IF step = "deployments" THEN AfterDeployments(ok)
    ELSE AfterActions(ok)

\* An event of the body: a step has started, all its calls have returned
\* (ok, with the calls that returned), or one of them has rejected (fail).
Event(step, net, kind, returned) ==
    [cycle |-> Len(cycles), snapshot |-> cycles[Len(cycles)].snapshot,
     step |-> step, net |-> net, kind |-> kind, returned |-> returned]

\* The calls the body is awaiting: those of its step that have not returned.
Awaited ==
    IF body.step # "idle" /\ body.called THEN CallsOf(body.step) \ body.returned ELSE {}

\* The work a step leaves running when the body moves on: the calls of the
\* other networks when one call rejects (the map rejects at once);
\* graphNode.ensure(name, deployment), called and not awaited, when
\* reconcileDeployments returns and there was something to deploy.
LeftRunning(step, net, ok) ==
    IF ~ok
    THEN {IF Awaited = {net} THEN {} ELSE {[cycle |-> Len(cycles), step |-> step]}}
    ELSE IF step = "deployments"
    THEN {{}, {[cycle |-> Len(cycles), step |-> "ensure"]}}
    ELSE {{}}

InitPipe ==
    /\ IdleRules
    /\ IdleConfig
    /\ IdleEventuals
    /\ IdleDisputes
    /\ IdleStart
    /\ IdlePipe
    /\ IdleJoin
    /\ IdleServer
    /\ IdleQueue
    /\ chain = <<>>
    /\ phase = "init"
    /\ outcome = "none"
    /\ calls = <<>>
    /\ before = <<>>

\* The join produces a new snapshot (a timer ticked, an eventual changed).
SnapshotArrives ==
    /\ snapshots < MaxSnapshots
    /\ snapshots' = snapshots + 1
    /\ mailbox' = Mailbox(mailbox, snapshots + 1)
    /\ UNCHANGED <<stalled, cycles, body, inflight, trace>>
    /\ UNCHANGED otherThanPipe

\* The pipe invokes the body with the pending snapshot.
StartCycle ==
    /\ Len(cycles) < MaxCycles
    /\ CanStart(body, mailbox, stalled)
    /\ cycles' = Append(cycles, [snapshot |-> mailbox, latestAtStart |-> snapshots,
                                 result |-> "running"])
    /\ mailbox' = 0
    /\ body' = At("claim")
    /\ UNCHANGED <<snapshots, stalled, inflight, trace>>
    /\ UNCHANGED otherThanPipe

\* The body makes the calls of its step and awaits them.
BeginStep ==
    /\ body.step # "idle"
    /\ ~body.called
    /\ body' = [body EXCEPT !.called = TRUE]
    /\ trace' = Append(trace, Event(body.step, 0, "start", {}))
    /\ UNCHANGED <<snapshots, mailbox, stalled, cycles, inflight>>
    /\ UNCHANGED otherThanPipe

\* A call the body awaits returns, and it is not the last of its step.
CallReturns ==
    \E n \in Awaited :
        /\ Awaited # {n}
        /\ body' = [body EXCEPT !.returned = @ \cup {n}]
        /\ UNCHANGED <<snapshots, mailbox, stalled, cycles, inflight, trace>>
        /\ UNCHANGED otherThanPipe

\* What the body awaits is settled: the last call of the step returns, or one
\* of them rejects and the whole map with it, the other calls still running.
StepEnds ==
    \E n \in Awaited, ok \in BOOLEAN, stalls \in PipeStallsAfterRejection :
        /\ ok => Awaited = {n}
        /\ \E next \in {AfterStep(body.step, ok)}, left \in LeftRunning(body.step, n, ok) :
             /\ inflight' = inflight \cup left
             /\ trace' = Append(trace, IF ok
                     THEN Event(body.step, 0, "ok", body.returned \cup {n})
                     ELSE Event(body.step, n, "fail", {}))
             /\ body' = next.body
             /\ cycles' = [cycles EXCEPT ![Len(cycles)].result = next.result]
             /\ stalled' = (stalled \/ (next.result = "rejected" /\ stalls))
        /\ UNCHANGED <<snapshots, mailbox>>
        /\ UNCHANGED otherThanPipe

\* Work that nothing awaits comes to its end.
StragglerEnds ==
    \E c \in inflight :
        /\ inflight' = inflight \ {c}
        /\ UNCHANGED <<snapshots, mailbox, stalled, cycles, body, trace>>
        /\ UNCHANGED otherThanPipe

NextPipe ==
    \/ SnapshotArrives
    \/ StartCycle
    \/ BeginStep
    \/ CallReturns
    \/ StepEnds
    \/ StragglerEnds

SpecPipe == InitPipe /\ [][NextPipe]_vars

(***************************************************************************)
(* The join that feeds the top-level pipe: join({ticker, ...}).pipe(...)   *)
(* (SpecJoin).                                                             *)
(***************************************************************************)
\* The keys of the object passed to join.
JoinInputs ==
    {"ticker", "currentEpochNumber", "maxAllocationEpochs", "activeDeployments",
     "targetDeployments", "activeAllocations", "networkDeploymentAllocationDecisions",
     "recentlyClosedAllocations", "claimableAllocations", "disputableAllocations"}

\* A join that has a value as soon as one input has.
JoinReady_Any(have) == have # {}

\* join has a value once every input has produced one, and a new value
\* whenever an input produces one after that.
JoinReady(have) == have = JoinInputs

InitJoin == InitPipe

\* An input of the join produces a value (a timer ticks, a tryMap callback
\* resolves with a value that differs from the last); a tryMap whose callback
\* rejects produces none. The join passes a snapshot to the pipe if it has a
\* value of every input.
InputProduces ==
    /\ \E i \in JoinInputs :
         /\ produced' = produced \cup {i}
         /\ IF JoinReady(produced') /\ snapshots < MaxSnapshots
            THEN /\ snapshots' = snapshots + 1
                 /\ mailbox' = Mailbox(mailbox, snapshots + 1)
            ELSE UNCHANGED <<snapshots, mailbox>>
    /\ UNCHANGED <<stalled, cycles, body, inflight, trace>>
    /\ UNCHANGED <<phase, rulesVars, configVars, eventualVars, chain, disputeVars,
                   startVars, queueVars, serverVars, outcome, calls, before>>

NextJoin ==
    \/ InputProduces
    \/ StartCycle
    \/ BeginStep
    \/ CallReturns
    \/ StepEnds
    \/ StragglerEnds

SpecJoin == InitJoin /\ [][NextJoin]_vars

(***************************************************************************)
(* One decision of the allocation reconciler:                              *)
(* reconcileDeploymentAllocationAction for one network (SpecDecision).     *)
(***************************************************************************)
MaxDecisionAllocations == 2
MaxClosedAllocations == 2

AllocationLifetimes == {Null, 0, 1, 2}
DecisionCreatedAtEpochs == {1, 2}
DecisionEpochs == {2, 3}
DecisionMaxAllocationEpochs == {1, 3}

\* A decision of the evaluator for network 1.
DecisionInputs ==
    {[deployment |-> DeploymentObject("decision", 1, d, d),
      toAllocate |-> t,
      ruleMatch  |-> [rule |-> [allocationLifetime |-> l]]] :
        d \in DeploymentIds, t \in BOOLEAN, l \in AllocationLifetimes}

\* What networkMonitor.allocations(ACTIVE) returns for network 1: several
\* allocations may be on one deployment.
DecisionAllocationLists ==
    UNION {{[i \in 1..k |->
                [id |-> <<1, i>>,
                 subgraphDeployment |->
                     [id |-> DeploymentObject("allocation", 1, i, a[i].deployment)],
                 createdAtEpoch |-> a[i].createdAtEpoch]] :
              a \in [1..k -> [deployment : DeploymentIds,
                              createdAtEpoch : DecisionCreatedAtEpochs]]} :
           k \in 0..MaxDecisionAllocations}

\* What staking.getAllocation answers, allocation by allocation.
DecisionGetAllocations ==
    [{<<1, i>> : i \in 1..MaxDecisionAllocations} -> GetAllocationResults]

\* What networkMonitor.closedAllocations(deployment) returns, most recent first.
ClosedAllocationLists ==
    {[i \in 1..k |-> <<1, MaxDecisionAllocations + i>>] : k \in 0..MaxClosedAllocations}

\* The allocations a decision is taken on, had the agent used the snapshot of
\* the cycle.
AllocationsForDecision_Snapshot(snapshot, reread) == snapshot

\* const activeAllocations = await network.networkMonitor.allocations(ACTIVE):
\* the allocations a decision is taken on are read again when the decision is
\* processed; the activeAllocations of the cycle's snapshot are only logged.
AllocationsForDecision(snapshot, reread) == reread

InitDecision ==
    /\ IdleStart
    /\ IdlePipe
    /\ IdleJoin
    /\ IdleServer
    /\ IdleQueue
    /\ IdleDisputes
    /\ IdleRules
    /\ IdleConfig
    /\ phase = "init"
    /\ outcome = "none"
    /\ calls = <<>>
    /\ before = <<>>
    /\ indexingRules = <<>>
    /\ decisions \in DecisionInputs
    /\ targetDeployments = <<>>
    /\ activeDeployments = <<>>
    /\ eligibleAllocations = <<>>
    /\ activeAllocations = <<>>
    /\ chain \in [allocations : DecisionAllocationLists,
                  epoch : DecisionEpochs,
                  maxAllocationEpochs : DecisionMaxAllocationEpochs,
                  getAllocation : DecisionGetAllocations,
                  closedAllocations : ClosedAllocationLists]

\* await this.reconcileDeploymentAllocationAction(decision, epoch,
\* maxAllocationEpochs, network, operator)
ReconcileDeploymentAllocationAction ==
    /\ phase = "init"
    /\ calls' = reconcileDeploymentAllocationAction(decisions, chain.epoch,
                    chain.maxAllocationEpochs, 1,
                    AllocationsForDecision(activeAllocations, chain.allocations),
                    chain.getAllocation, chain.closedAllocations)
    /\ outcome' = "ok"
    /\ phase' = "decision"
    /\ UNCHANGED <<rulesVars, configVars, eventualVars, chain, disputeVars,
                   lifecycleVars, before>>

NextDecision == ReconcileDeploymentAllocationAction

SpecDecision == InitDecision /\ [][NextDecision]_vars

\* A decision processed some time after the cycle's snapshot was taken
\* (SpecReread): activeAllocations is the snapshot's list for the network,
\* chain.allocations what the network monitor returns now.
InitReread ==
    /\ IdleStart
    /\ IdlePipe
    /\ IdleJoin
    /\ IdleServer
    /\ IdleQueue
    /\ IdleDisputes
    /\ IdleRules
    /\ IdleConfig
    /\ phase = "init"
    /\ outcome = "none"
    /\ calls = <<>>
    /\ before = <<>>
    /\ indexingRules = <<>>
    /\ decisions \in DecisionInputs
    /\ targetDeployments = <<>>
    /\ activeDeployments = <<>>
    /\ eligibleAllocations = <<>>
    /\ activeAllocations \in DecisionAllocationLists
    /\ chain \in [allocations : DecisionAllocationLists,
                  epoch : DecisionEpochs,
                  maxAllocationEpochs : {3},
                  getAllocation : {[id \in {<<1, i>> : i \in 1..MaxDecisionAllocations}
                                       |-> "open"]},
                  closedAllocations : {<<>>}]

SpecReread == InitReread /\ [][NextDecision]_vars

(***************************************************************************)
(* The work queue of reconcileDeployments: new PQueue({ concurrency: 10 }), *)
(* queue.addAll(deploy tasks), queue.addAll(remove tasks), queue.onIdle()   *)
(* (SpecQueue). Tasks and calls are counted, not told apart.                *)
(***************************************************************************)
MaxDeploy == 11
MaxRemove == 11

\* new PQueue({ concurrency: 10 })
concurrency == 10

\* Tasks each of which returns the promise of its graph-node call.
TaskAwaits_Both(op) == TRUE

\* Tasks none of which returns the promise of its graph-node call.
TaskAwaits_Neither(op) == FALSE

\* Whether a task of the queue ends with its graph-node call: the remove task
\* returns this.graphNode.remove(deployment); the deploy task calls
\* this.graphNode.ensure(name, deployment) and returns without it.
TaskAwaits(op) == op = "remove"

\* The tasks waiting in the queue are those of the last addAll.
PendingOp(stage) == IF stage = "deploy" THEN "ensure" ELSE "remove"

InitQueue ==
    /\ IdleRules
    /\ IdleConfig
    /\ IdleEventuals
    /\ IdleDisputes
    /\ IdleStart
    /\ IdlePipe
    /\ IdleJoin
    /\ IdleServer
    /\ chain = <<>>
    /\ phase = "init"
    /\ outcome = "none"
    /\ calls = <<>>
    /\ before = <<>>
    /\ \E d \in 0..MaxDeploy, r \in 0..MaxRemove :
         queue = [stage |-> "deploy", deploy |-> d, remove |-> r, pending |-> d,
                  running |-> 0, settling |-> 0, done |-> 0]
    /\ graphNodeOps = NoOps

\* The queue starts a waiting task when fewer than `concurrency` are running;
\* the task makes its graph-node call.
TaskStarts ==
    /\ queue.pending > 0
    /\ queue.running < concurrency
    /\ \E op \in {PendingOp(queue.stage)} :
         /\ queue' = [queue EXCEPT !.pending = @ - 1, !.running = @ + 1,
                                   !.settling = IF TaskAwaits(op) THEN @ ELSE @ + 1]
         /\ graphNodeOps' = [graphNodeOps EXCEPT ![op] = @ + 1]
    /\ UNCHANGED otherThanQueue

\* A task that does not wait for its call is over.
TaskEnds ==
    /\ queue.settling > 0
    /\ queue' = [queue EXCEPT !.running = @ - 1, !.settling = @ - 1, !.done = @ + 1]
    /\ UNCHANGED graphNodeOps
    /\ UNCHANGED otherThanQueue

\* graphNode.ensure resolves or rejects; the task that called it did not
\* return its promise, so nothing waits for it and nothing sees its rejection.
EnsureEnds ==
    /\ graphNodeOps.ensure > 0
    /\ \E ok \in BOOLEAN :
         /\ graphNodeOps' = [graphNodeOps EXCEPT !.ensure = @ - 1,
                                                 !.ensureFailed = @ \/ ~ok]
         /\ queue' = IF ~TaskAwaits("ensure") THEN queue
                     ELSE [queue EXCEPT !.running = @ - 1, !.done = @ + 1,
                                        !.stage = IF ~ok /\ @ = "deploy" THEN "threw"
                                                  ELSE @]
    /\ UNCHANGED otherThanQueue

\* graphNode.remove resolves or rejects, and with it the task that returned
\* it; a rejection rejects the awaited addAll, and reconcileDeployments throws.
RemoveEnds ==
    /\ graphNodeOps.remove > 0
    /\ \E ok \in BOOLEAN :
         /\ graphNodeOps' = [graphNodeOps EXCEPT !.remove = @ - 1,
                                                 !.removed = IF ok THEN @ + 1 ELSE @,
                                                 !.removeFailed = @ \/ ~ok]
         /\ queue' = IF ~TaskAwaits("remove") THEN queue
                     ELSE [queue EXCEPT !.running = @ - 1, !.done = @ + 1,
                                        !.stage = IF ~ok /\ @ = "remove" THEN "threw"
                                                  ELSE @]
    /\ UNCHANGED otherThanQueue

\* await queue.addAll(deploy tasks) resolves: queue.addAll(remove tasks).
AddRemoveTasks ==
    /\ queue.stage = "deploy"
    /\ queue.done = queue.deploy
    /\ queue' = [queue EXCEPT !.stage = "remove", !.pending = queue.remove, !.done = 0]
    /\ UNCHANGED graphNodeOps
    /\ UNCHANGED otherThanQueue

\* await queue.addAll(remove tasks) resolves: await queue.onIdle().
AwaitIdle ==
    /\ queue.stage = "remove"
    /\ queue.done = queue.remove
    /\ queue' = [queue EXCEPT !.stage = "onIdle"]
    /\ UNCHANGED graphNodeOps
    /\ UNCHANGED otherThanQueue

\* queue.onIdle() resolves when no task waits or runs: reconcileDeployments
\* returns.
Return ==
    /\ queue.stage = "onIdle"
    /\ queue.pending = 0
    /\ queue.running = 0
    /\ queue' = [queue EXCEPT !.stage = "returned"]
    /\ UNCHANGED graphNodeOps
    /\ UNCHANGED otherThanQueue

NextQueue ==
    \/ TaskStarts
    \/ TaskEnds
    \/ EnsureEnds
    \/ RemoveEnds
    \/ AddRemoveTasks
    \/ AwaitIdle
    \/ Return

SpecQueue == InitQueue /\ [][NextQueue]_vars

(***************************************************************************)
(* The query server: POST /subgraphs/id/:id of createServer (SpecServer).  *)
(***************************************************************************)
MaxRequests == 2

\* The addresses requests come from (req.ip).
Addresses == {"10.0.0.1", "10.0.0.2"}

\* req.headers['x-graph-payment-id']: absent, a string, or an array of strings.
PaymentIdHeaders == {"undefined", "string", "array"}

\* What a query processor does with a query: it throws, or it returns a
\* response whose status is 0 (none given) or a status code.
ProcessorResults ==
    {[threw |-> TRUE, status |-> 0]}
        \cup {[threw |-> FALSE, status |-> c] : c \in {0, 200, 400}}

\* A server that never requires payment.
PaymentRequired_Never(list, ip) == FALSE

\* let paymentRequired = true; if (whitelist.indexOf(req.ip) >= 0) paymentRequired = false
PaymentRequired(list, ip) == ~(ip \in list)

\* res.status(response.status || 200), or 500 when the processor threw.
StatusOf(result) ==
    IF result.threw THEN 500 ELSE IF result.status = 0 THEN 200 ELSE result.status

\* The handler of POST /subgraphs/id/:id: the status it answers with and the
\* query processor it called.
postSubgraphQuery(list, ip, paymentId, paidResult, freeResult) ==
    IF paymentId = "array"
    THEN [status |-> 400, processor |-> "none"]
    ELSE IF PaymentRequired(list, ip) /\ paymentId = "undefined"
    THEN [status |-> 400, processor |-> "none"]
    ELSE IF paymentId # "undefined"
    THEN [status |-> StatusOf(paidResult), processor |-> "paid"]
    ELSE [status |-> StatusOf(freeResult), processor |-> "free"]

InitServer ==
    /\ IdleRules
    /\ IdleConfig
    /\ IdleEventuals
    /\ IdleDisputes
    /\ IdleStart
    /\ IdlePipe
    /\ IdleJoin
    /\ IdleQueue
    /\ chain = <<>>
    /\ phase = "init"
    /\ outcome = "none"
    /\ calls = <<>>
    /\ before = <<>>
    /\ whitelist \in SUBSET Addresses
    /\ handled = <<>>

\* A POST /subgraphs/id/:id request arrives and is answered.
HandleRequest ==
    /\ Len(handled) < MaxRequests
    /\ \E ip \in Addresses, paymentId \in PaymentIdHeaders, result \in ProcessorResults :
         \E r \in {postSubgraphQuery(whitelist, ip, paymentId, result, result)} :
             handled' = Append(handled, [ip |-> ip, paymentId |-> paymentId,
                                         status |-> r.status, processor |-> r.processor])
    /\ UNCHANGED <<phase, rulesVars, configVars, eventualVars, chain, disputeVars,
                   startVars, pipeVars, joinVars, queueVars, whitelist, outcome, calls,
                   before>>

NextServer == HandleRequest

SpecServer == InitServer /\ [][NextServer]_vars

(***************************************************************************)
(* Properties of the rule normalizer (SpecRules).                          *)
(***************************************************************************)
Converted == phase = "converted"

\* A rule targets deployment d: it is DEPLOYMENT-typed and its identifier is one
\* of the two renderings of d.
RuleTargets(rule, d) ==
    /\ rule.identifierType = "deployment"
    /\ rule.identifier \in {[form |-> "hex", id |-> d], [form |-> "ipfs", id |-> d]}

\* The rules list as it stands while the rule at index i is processed: the rules
\* before i (and, with self, the rule at i) as returned, the others as passed in.
RulesWhenProcessing(i, self) ==
    [j \in 1..Len(rulesIn) |->
        IF j < i \/ (self /\ j = i) THEN rulesOut[j] ELSE rulesIn[j]]

SubgraphOf(rule) ==
    {sg \in Range(subgraphs) : SubgraphIdentifier(sg.id) = rule.identifier}

VersionsAt(sg, n) == {v \in Range(sg.versions) : v.version = n}

\* The rule at index i is SUBGRAPH-typed, its subgraph is in subgraphs and the
\* subgraph's latest version (version = versionCount - 1) is listed.
HasLatest(i) ==
    /\ rulesIn[i].identifierType = "subgraph"
    /\ \E sg \in SubgraphOf(rulesIn[i]) : VersionsAt(sg, sg.versionCount - 1) # {}

LatestOf(i) ==
    LET sg == CHOOSE g \in SubgraphOf(rulesIn[i]) : TRUE
    IN  CHOOSE v \in VersionsAt(sg, sg.versionCount - 1) : TRUE

HasPrevious(i) ==
    \E sg \in SubgraphOf(rulesIn[i]) : VersionsAt(sg, sg.versionCount - 2) # {}

PreviousOf(i) ==
    LET sg == CHOOSE g \in SubgraphOf(rulesIn[i]) : TRUE
    IN  CHOOSE v \in VersionsAt(sg, sg.versionCount - 2) : TRUE

AsDeploymentRule(rule, d) ==
    [rule EXCEPT !.identifier = [form |-> "ipfs", id |-> d],
                 !.identifierType = "deployment"]

\* C8 as stated: every SUBGRAPH-typed rule whose subgraph is in subgraphs (with its
\* latest version, version = versionCount - 1) comes back DEPLOYMENT-typed with the
\* latest version's deployment as identifier.
C8_Original ==
    Converted =>
      \A i \in 1..Len(rulesIn) :
        HasLatest(i) =>
          /\ rulesOut[i].identifierType = "deployment"
          /\ rulesOut[i].identifier = [form |-> "ipfs", id |-> LatestOf(i).deployment.bytes32]

\* C8 amended: a SUBGRAPH-typed rule whose subgraph and latest version are found
\* is rewritten to the latest deployment (DEPLOYMENT-typed, everything else kept)
\* exactly when no rule of the list targets that deployment at the time the rule
\* is processed; every other rule is returned unchanged.
C8_RewriteUnlessTargeted ==
    Converted =>
      /\ Len(rulesOut) >= Len(rulesIn)
      /\ \A i \in 1..Len(rulesIn) :
           IF /\ HasLatest(i)
              /\ ~\E j \in 1..Len(rulesIn) :
                    RuleTargets(RulesWhenProcessing(i, FALSE)[j],
                                LatestOf(i).deployment.bytes32)
           THEN rulesOut[i] = AsDeploymentRule(rulesIn[i], LatestOf(i).deployment.bytes32)
           ELSE rulesOut[i] = rulesIn[i]

\* C8 witness: one SUBGRAPH-typed rule was rewritten while another, whose latest
\* deployment was already targeted, was left SUBGRAPH-typed.
C8_Witness ==
    /\ Converted
    /\ \E i \in 1..Len(rulesIn) : HasLatest(i) /\ rulesOut[i].identifierType = "deployment"
    /\ \E i \in 1..Len(rulesIn) : HasLatest(i) /\ rulesOut[i].identifierType = "subgraph"

\* C9 as stated: with one rule per (protocolNetwork, identifier) in the input, the
\* returned list holds no two rules with the same (protocolNetwork, identifier).
C9_NoDuplicateRules ==
    Converted =>
      \A i, j \in 1..Len(rulesOut) :
        (/\ rulesOut[i].protocolNetwork = rulesOut[j].protocolNetwork
         /\ rulesOut[i].identifier = rulesOut[j].identifier) => i = j

C35_Idempotent ==
    phase = "again" => rulesOut = before.rulesOut /\ added = <<>>

\* The first application left a rule SUBGRAPH-typed and appended a copy, and
\* the second application was made.
C35_Witness ==
    /\ phase = "again"
    /\ before.added # <<>>
    /\ \E i \in 1..Len(rulesIn) :
         before.rulesOut[i].identifierType = "subgraph" /\ HasLatest(i)

(***************************************************************************)
(* Properties of the targetDeployments eventual (SpecTargets).             *)
(***************************************************************************)
TargetsProduced == phase = "targets" /\ outcome = "ok"

\* (a) deployments of the decisions with toAllocate = true, (b) identifiers of the
\* OFFCHAIN rules, (c) the startup offchain list: as bytes32 values.
TargetUnion ==
    {dc.deployment.bytes32 :
        dc \in {x \in UNION {Range(decisions[n]) : n \in Networks} : x.toAllocate}}
      \cup {r.identifier.id :
              r \in {x \in UNION {Range(indexingRules[n]) : n \in Networks} :
                        x.decisionBasis = "offchain"}}
      \cup Bytes32Of(offchainSubgraphs)

\* C5 as stated: every value the targetDeployments eventual produces is the union
\* of (a), (b) and (c), and holds no two entries with the same bytes32.
C5_UnionWithoutDuplicates ==
    TargetsProduced =>
      /\ Bytes32Of(targetDeployments) = TargetUnion
      /\ \A i, j \in 1..Len(targetDeployments) :
           targetDeployments[i].bytes32 = targetDeployments[j].bytes32 => i = j

\* The part of C5 the code does meet: as a set of bytes32 values the produced
\* list is the union of (a), (b) and (c).
C5_UnionOnly ==
    TargetsProduced => Bytes32Of(targetDeployments) = TargetUnion

(***************************************************************************)
(* Properties of the deployment reconciler (SpecDeployments).              *)
(***************************************************************************)
Reconciled == phase = "deployments"

Ensured == {c.deployment : c \in {x \in Range(calls) : x.op = "ensure"}}
Removed == {c.deployment : c \in {x \in Range(calls) : x.op = "remove"}}

EligibleDeployments ==
    {eligibleAllocations[i].subgraphDeployment.id.bytes32 :
        i \in 1..Len(eligibleAllocations)}

\* C1: graphNode.remove is never called for a deployment that backs an allocation
\* of eligibleAllocations, whatever the active and target lists are.
C1_EligibleNeverRemoved ==
    Reconciled => Removed \cap EligibleDeployments = {}

\* C1 witness: a deployment that is active, in no target entry, not the network
\* subgraph and not in the offchain list is kept because an eligible allocation
\* uses it, while another active deployment is removed in the same call.
C1_Witness ==
    /\ Reconciled
    /\ Removed # {}
    /\ \E d \in EligibleDeployments :
         /\ d \in Bytes32Of(activeDeployments)
         /\ d \notin Bytes32Of(targetDeployments)
         /\ d \notin Removed

NetworkSubgraphIds == {netSpec[n].networkSubgraph : n \in Networks} \ {0}

\* C6 as stated: every configured network subgraph deployment and every entry of
\* the startup offchain list is ensured when it is not active and is never
\* removed.
C6_AlwaysIndexed ==
    Reconciled =>
      \A d \in NetworkSubgraphIds \cup Bytes32Of(offchainSubgraphs) :
        /\ d \notin Bytes32Of(activeDeployments) => d \in Ensured
        /\ d \notin Removed

\* The part of C6 the code meets: the entries of the startup offchain list are
\* ensured when not active and never removed.
C6_OffchainAlwaysIndexed ==
    Reconciled =>
      \A d \in Bytes32Of(offchainSubgraphs) :
        /\ d \notin Bytes32Of(activeDeployments) => d \in Ensured
        /\ d \notin Removed

(***************************************************************************)
(* Properties of the allocation reconciler (SpecActions).                  *)
(***************************************************************************)
ActionsReconciled == phase = "actions"

OperatorCalls(n) == {c \in Range(calls) : c.net = n}

\* C2: when a network's allocationManagementMode is MANUAL, a reconcileActions
\* call invokes none of createAllocation, closeEligibleAllocations and
\* refreshExpiredAllocations for that network.
C2_ManualModeIsolation ==
    ActionsReconciled =>
      \A n \in Networks :
        netSpec[n].allocationManagementMode = "manual" => OperatorCalls(n) = {}

\* C7: after the network-subgraph guard, a non-MANUAL network that has a network
\* subgraph deployment and allocateOnNetworkSubgraph = false holds no decision
\* with toAllocate = true for that deployment, and neither createAllocation nor
\* refreshExpiredAllocations is called for it.
C7_NetworkSubgraphNeverAllocated ==
    ActionsReconciled =>
      \A n \in Networks :
        (/\ netSpec[n].allocationManagementMode # "manual"
         /\ netSpec[n].networkSubgraph # 0
         /\ ~netSpec[n].allocateOnNetworkSubgraph)
        => /\ n \in DOMAIN decisions
           /\ \A i \in 1..Len(decisions[n]) :
                 decisions[n][i].deployment.bytes32 = netSpec[n].networkSubgraph
                 => ~decisions[n][i].toAllocate
           /\ \A c \in OperatorCalls(n) :
                 c.deployment = netSpec[n].networkSubgraph => c.op = "close"

\* The guard acted: a decision to allocate on the network subgraph of a
\* non-MANUAL network came in, and the call closed instead of creating.
C7_Witness ==
    /\ ActionsReconciled
    /\ \E n \in Networks :
         /\ netSpec[n].allocationManagementMode = "auto"
         /\ netSpec[n].networkSubgraph # 0
         /\ ~netSpec[n].allocateOnNetworkSubgraph
         /\ \E i \in 1..Len(before.decisions[n]) :
              /\ before.decisions[n][i].deployment.bytes32 = netSpec[n].networkSubgraph
              /\ before.decisions[n][i].toAllocate
              /\ ~decisions[n][i].toAllocate
         /\ \E c \in OperatorCalls(n) :
              c.deployment = netSpec[n].networkSubgraph /\ c.op = "close"

\* The operator calls made for deployment d of network n, by position.
CallsFor(n, d) == {k \in 1..Len(calls) : calls[k].net = n /\ calls[k].deployment = d}

MixedModes ==
    /\ \E n \in Networks : netSpec[n].allocationManagementMode = "manual"
    /\ \E n \in Networks : netSpec[n].allocationManagementMode # "manual"

C3_SecondRunStoresNothing ==
    Len(runs) >= 2 => ~runs[2].stored

\* C4: the status of every dispute record built is valid when the allocation's
\* POI equals the pool's referencePOI or referencePreviousPOI, otherwise
\* reference_unavailable when one of the two reference POIs is missing,
\* otherwise potential.
C4_Classification ==
    \A k \in 1..Len(runs) :
      \A i \in 1..Len(runs[k].disputes) :
        LET d == runs[k].disputes[i]
        IN  d.status =
              IF \/ d.allocationProof = d.closedEpochReferenceProof
                 \/ d.allocationProof = d.previousEpochReferenceProof
              THEN "valid"
              ELSE IF d.closedEpochReferenceProof = 0 \/ d.previousEpochReferenceProof = 0
              THEN "reference_unavailable"
              ELSE "potential"

\* One invocation built a record that is valid by the previous epoch's
\* reference POI alone and a record that is reference_unavailable.
C4_Witness ==
    \E k \in 1..Len(runs) :
      \E i, j \in 1..Len(runs[k].disputes) :
        /\ runs[k].disputes[i].status = "valid"
        /\ runs[k].disputes[i].allocationProof # runs[k].disputes[i].closedEpochReferenceProof
        /\ runs[k].disputes[i].allocationProof = runs[k].disputes[i].previousEpochReferenceProof
        /\ runs[k].disputes[j].status = "reference_unavailable"

\* C29: in one invocation no two of the rewards pools whose blocks and
\* reference POIs are fetched have the same subgraphDeployment and
\* closedAtEpoch.
C29_PoolsUniqueByPair ==
    \A k \in 1..Len(runs) :
      \A i, j \in 1..Len(runs[k].pools) :
        runs[k].pools[i] = runs[k].pools[j] => i = j

\* The new allocations of run k for which no rewards pool was found.
WithoutPool(k) ==
    {i \in 1..Len(runs[k].new) :
        \/ ~\E j \in 1..Len(disputableAllocations) :
               /\ disputableAllocations[j].id = runs[k].new[i]
               /\ disputableAllocations[j].closedAtEpochStartBlockHash # 0}

\* C30: an invocation that calls storePoiDisputes has classified every new
\* allocation before; an invocation with a new allocation that has no rewards
\* pool throws and does not store; and every row of the store was given by an
\* invocation that classified all of its new allocations.
C30_AllOrNothing ==
    /\ \A k \in 1..Len(runs) :
         /\ runs[k].stored =>
              /\ ~runs[k].threw
              /\ [i \in 1..Len(runs[k].disputes) |-> runs[k].disputes[i].allocationID]
                     = runs[k].new
         /\ WithoutPool(k) # {} => runs[k].threw /\ ~runs[k].stored
    /\ \A d \in disputeStore :
         \E k \in 1..Len(runs) :
           /\ runs[k].stored
           /\ WithoutPool(k) = {}
           /\ \E i \in 1..Len(runs[k].disputes) :
                runs[k].disputes[i].allocationID = d.allocationID

\* An invocation with two new allocations, one of them without a rewards pool,
\* threw, and the store is empty.
C30_Witness ==
    \E k \in 1..Len(runs) :
      /\ Len(runs[k].new) = 2
      /\ Cardinality(WithoutPool(k)) = 1
      /\ runs[k].threw
      /\ disputeStore = {}

\* The allocations for which an earlier run stored a potential or valid
\* dispute (every allocation modelled closed at the disputable epoch, on the
\* network of the operator).
ProcessedBefore(k) ==
    {id \in {disputableAllocations[a].id : a \in 1..Len(disputableAllocations)} :
        \E x \in 1..(k - 1) :
          /\ runs[x].stored
          /\ \E y \in 1..Len(runs[x].disputes) :
               /\ runs[x].disputes[y].allocationID = id
               /\ runs[x].disputes[y].status \in {"potential", "valid"}}

\* C36: the records an invocation passes to storePoiDisputes are, in order, one
\* for each disputable allocation that has no potential or valid dispute
\* stored for this epoch and network, none for any other allocation, and each
\* carries the network identifier of the operator's network.
C36_OneRecordPerNewAllocation ==
    \A k \in 1..Len(runs) :
      runs[k].stored =>
        /\ [i \in 1..Len(runs[k].disputes) |-> runs[k].disputes[i].allocationID]
             = AllocationIds(FilterIdx(disputableAllocations,
                                       {a \in 1..Len(disputableAllocations) :
                                           disputableAllocations[a].id
                                               \notin ProcessedBefore(k)}, 1))
        /\ \A i \in 1..Len(runs[k].disputes) : runs[k].disputes[i].protocolNetwork = 1

\* A first invocation stored two records, one of them potential or valid; the
\* second stored a record for the other allocation only.
C36_Witness ==
    /\ Len(runs) = 2
    /\ runs[1].stored /\ Len(runs[1].disputes) = 2
    /\ runs[2].stored /\ Len(runs[2].disputes) = 1
    /\ runs[2].disputes[1].allocationID \notin ProcessedBefore(2)

(***************************************************************************)
(* Properties of the top-level pipe (SpecPipe).                            *)
(***************************************************************************)
StepRank(step) ==
    IF step = "claim" THEN 1
    ELSE IF step = "disputes" THEN 2
    ELSE IF step = "deployments" THEN 3
    ELSE 4

StepOfRank(k) ==
    IF k = 1 THEN "claim"
    ELSE IF k = 2 THEN "disputes"
    ELSE IF k = 3 THEN "deployments"
    ELSE "actions"

StepFailedBefore(c, step, j) ==
    \E i \in 1..(j - 1) :
        trace[i].cycle = c /\ trace[i].step = step /\ trace[i].kind = "fail"

\* Before position j of the trace, every call of the step of cycle c has
\* returned.
StepCompletedBefore(c, step, j) ==
    \E i \in 1..(j - 1) :
        /\ trace[i].cycle = c /\ trace[i].step = step
        /\ trace[i].kind = "ok" /\ trace[i].returned = CallsOf(step)

StepEndedBefore(c, step, j) ==
    StepFailedBefore(c, step, j) \/ StepCompletedBefore(c, step, j)

Started(c, step) ==
    \E i \in 1..Len(trace) :
        trace[i].cycle = c /\ trace[i].step = step /\ trace[i].kind = "start"

Failed(c, step) ==
    \E i \in 1..Len(trace) :
        trace[i].cycle = c /\ trace[i].step = step /\ trace[i].kind = "fail"

Succeeded(c, step) == StepCompletedBefore(c, step, Len(trace) + 1)

\* C11: within one run of the pipe body the steps come in the order
\* claimRebateRewards, identifyPotentialDisputes, reconcileDeployments,
\* reconcileActions, and a step starts only when the step before it has
\* completed or failed.
C11_StepsInOrder ==
    /\ \A i, j \in 1..Len(trace) :
         (i < j /\ trace[i].cycle = trace[j].cycle)
         => StepRank(trace[i].step) <= StepRank(trace[j].step)
    /\ \A j \in 1..Len(trace) :
         (trace[j].kind = "start" /\ StepRank(trace[j].step) > 1)
         => StepEndedBefore(trace[j].cycle,
                            StepOfRank(StepRank(trace[j].step) - 1), j)
    /\ \A j \in 2..Len(trace) :
         (trace[j].kind = "start" /\ trace[j - 1].cycle = trace[j].cycle)
         => trace[j - 1].kind # "start"

\* A run went through all four steps, its dispute step having failed.
C11_Witness ==
    \E c \in 1..Len(cycles) :
        /\ cycles[c].result = "completed"
        /\ Succeeded(c, "claim")
        /\ Failed(c, "disputes")
        /\ Succeeded(c, "deployments")
        /\ Succeeded(c, "actions")

\* C12: when reconcileDeployments throws in a cycle, reconcileActions is not
\* invoked in that cycle and the pipe body completes without raising.
C12_ActionsSkippedAfterFailure ==
    \A c \in 1..Len(cycles) :
        Failed(c, "deployments")
        => /\ ~Started(c, "actions")
           /\ cycles[c].result = "completed"

\* reconcileDeployments threw in a cycle, and the pipe ran a later cycle.
C12_Witness ==
    \E c \in 1..Len(cycles) :
        /\ Failed(c, "deployments")
        /\ c < Len(cycles)

\* C13: no failure of a collaborator call made in the pipe body propagates
\* out of it: every run of the body completes normally.
C13_NoRejection ==
    \A c \in 1..Len(cycles) : cycles[c].result # "rejected"

\* C14: when identifyPotentialDisputes throws for a network in a cycle,
\* reconcileDeployments is still invoked in that cycle with the cycle's
\* snapshot, and reconcileActions after it when reconcileDeployments succeeds.
C14_DeploymentsAfterDisputeFailure ==
    \A c \in 1..Len(cycles) :
        Failed(c, "disputes")
        => /\ \/ \E i \in 1..Len(trace) :
                   /\ trace[i].cycle = c /\ trace[i].step = "deployments"
                   /\ trace[i].kind = "start"
                   /\ trace[i].snapshot = cycles[c].snapshot
              \/ (c = Len(cycles) /\ body = At("deployments"))
           /\ Succeeded(c, "deployments")
              => \/ Started(c, "actions")
                 \/ (c = Len(cycles) /\ body = At("actions"))

\* The dispute step failed for the first network, and both reconcilers ran.
C14_Witness ==
    \E c \in 1..Len(cycles) :
        /\ \E i \in 1..Len(trace) :
             /\ trace[i].cycle = c /\ trace[i].step = "disputes"
             /\ trace[i].net = 1 /\ trace[i].kind = "fail"
        /\ Succeeded(c, "deployments")
        /\ Started(c, "actions")

\* C15: of the snapshots that arrive while the pipe body runs, the next run
\* takes the latest; no snapshot is processed twice and none that an earlier
\* run has passed over is processed later, so one more run serves them all.
C15_Coalescing ==
    \A c \in 1..Len(cycles) :
        /\ cycles[c].snapshot = cycles[c].latestAtStart
        /\ c > 1 => cycles[c - 1].snapshot < cycles[c].snapshot

\* Two snapshots arrived during a run; the next run took the second of them.
C15_Witness ==
    \E c \in 2..Len(cycles) :
        /\ cycles[c].snapshot >= cycles[c - 1].snapshot + 2
        /\ cycles[c].result = "completed"

\* C16: while a run of the pipe body is executing, nothing started by an
\* earlier run is still executing: the work of different reconciliation
\* cycles never interleaves.
C16_NoWorkAcrossCycles ==
    (cycles # <<>> /\ cycles[Len(cycles)].result = "running")
    => \A w \in inflight : w.cycle = Len(cycles)

\* C16 (amended): two invocations of the pipe body never overlap: a run begins
\* only when the run before it has returned or rejected, and the steps the
\* body awaits in different runs do not interleave. Work a run has not
\* awaited (graphNode.ensure, the calls of the other networks when one call
\* rejected) may go on during a later run.
C16_NoOverlap ==
    /\ \A c \in 1..Len(cycles) : c < Len(cycles) => cycles[c].result # "running"
    /\ (body.step # "idle") <=> (cycles # <<>> /\ cycles[Len(cycles)].result = "running")
    /\ \A i, j \in 1..Len(trace) : i < j => trace[i].cycle <= trace[j].cycle

\* Two runs, each with its reconcileDeployments and reconcileActions, the
\* second one begun while graphNode.ensure of the first was still running.
C16_Witness ==
    \E c \in 2..Len(cycles) :
        /\ Succeeded(c - 1, "deployments") /\ Started(c - 1, "actions")
        /\ Succeeded(c, "deployments") /\ Started(c, "actions")
        /\ [cycle |-> c - 1, step |-> "ensure"] \in inflight

(***************************************************************************)
(* Properties of construction and startup (SpecStart).                     *)
(***************************************************************************)
StageRank(stage) ==
    IF stage = "connect" THEN 1
    ELSE IF stage = "rules" THEN 2
    ELSE IF stage = "subgraph" THEN 3
    ELSE IF stage = "register" THEN 4
    ELSE 5

\* The calls a stage owes: one of the graph node (0) for connect, one per
\* network otherwise, the subgraph stage for the networks with a network
\* subgraph only.
OwedBy(stage) ==
    IF stage = "connect" THEN {0}
    ELSE IF stage = "tree" THEN {}
    ELSE {n \in 1..Len(networksArg) :
             stage = "subgraph" => networksArg[n].networkSubgraph # 0}

StageDoneBefore(stage, j) ==
    \A n \in OwedBy(stage) :
        \E i \in 1..(j - 1) :
            /\ startTrace[i].stage = stage /\ startTrace[i].net = n
            /\ startTrace[i].kind = "ok"

\* C17: start() runs graphNode.connect, ensureGlobalIndexingRule for every
\* network, the network subgraph stage for every network, register for every
\* network and then builds the eventual graph; a stage starts only when the
\* stage before it has completed for all networks, and once a stage has
\* failed the eventual graph is never built.
C17_StartupOrder ==
    /\ \A i, j \in 1..Len(startTrace) :
         i < j => StageRank(startTrace[i].stage) <= StageRank(startTrace[j].stage)
    /\ \A j \in 1..Len(startTrace) :
         \A stage \in {"connect", "rules", "subgraph", "register"} :
             StageRank(stage) < StageRank(startTrace[j].stage)
             => StageDoneBefore(stage, j)
    /\ tree => /\ startup.failed = "no"
               /\ \A stage \in {"connect", "rules", "subgraph", "register"} :
                    StageDoneBefore(stage, Len(startTrace) + 1)
    /\ startup.failed # "no" => ~tree

\* The eventual graph was built for two networks, one of them with a network
\* subgraph.
C17_Witness ==
    /\ tree
    /\ Len(networksArg) = 2
    /\ \E n \in 1..2 : networksArg[n].networkSubgraph # 0
    /\ \E n \in 1..2 : networksArg[n].networkSubgraph = 0

InvalidPairs ==
    \/ Len(networksArg) # Len(operatorsArg)
    \/ \E i \in 1..Len(networksArg) :
         networksArg[i].networkIdentifier # operatorsArg[i].networkIdentifier

\* C18: constructing an Agent with networks and operators of different lengths,
\* or whose identifiers differ at some index, throws; no Agent is created and
\* no eventual graph is built.
C18_InvalidPairsThrow ==
    (agent # "none" /\ InvalidPairs)
    => /\ agent = "threw"
       /\ startup.stage = "none"
       /\ ~tree

\* The constructor threw for lists of equal length that differ at index 2.
C18_Witness ==
    /\ agent = "threw"
    /\ Len(networksArg) = 2
    /\ Len(operatorsArg) = 2
    /\ networksArg[1].networkIdentifier = operatorsArg[1].networkIdentifier
    /\ networksArg[2].networkIdentifier # operatorsArg[2].networkIdentifier

(***************************************************************************)
(* Properties of one decision of the allocation reconciler (SpecDecision). *)
(***************************************************************************)
DecisionReconciled == phase = "decision"

\* The positions, in what the network monitor returned, of the active
\* allocations on the decision's deployment.
OnDeployment ==
    {i \in 1..Len(chain.allocations) :
        chain.allocations[i].subgraphDeployment.id.bytes32 = decisions.deployment.bytes32}

IdsAt(positions) == {chain.allocations[i].id : i \in positions}

\* The lifetime the code measures expiry with (a lifetime of 0 is taken as
\* unset).
LifetimeInForce ==
    IF decisions.ruleMatch.rule.allocationLifetime \in {Null, 0}
    THEN Max(1, chain.maxAllocationEpochs - 1)
    ELSE decisions.ruleMatch.rule.allocationLifetime

\* The allocations on the deployment that are past their lifetime and that the
\* contracts do not report as closed.
ExpiredOnDeployment ==
    {i \in OnDeployment :
        /\ chain.epoch >= chain.allocations[i].createdAtEpoch + LifetimeInForce
        /\ chain.getAllocation[chain.allocations[i].id] # "closed"}

\* C19: the action logic acts on at most one active allocation: when several
\* are on the decision's deployment, only the first is passed to
\* closeEligibleAllocations or considered for refreshExpiredAllocations.
C19_OnlyFirstActedOn ==
    DecisionReconciled
    => \A i \in 1..Len(calls) :
           /\ Len(calls[i].allocations) <= 1
           /\ Len(calls[i].allocations) = 1
              => calls[i].allocations[1] = chain.allocations[FirstIndex(OnDeployment)].id

\* C19 (amended): the action logic acts on every active allocation on the
\* decision's deployment: closeEligibleAllocations is passed all of them, and
\* every one of them that has expired and is not closed on chain is passed to
\* refreshExpiredAllocations.
C19_AllActedOn ==
    DecisionReconciled
    => /\ ~decisions.toAllocate
          => /\ Len(calls) = 1
             /\ Range(calls[1].allocations) = IdsAt(OnDeployment)
             /\ Len(calls[1].allocations) = Cardinality(OnDeployment)
       /\ (decisions.toAllocate /\ ExpiredOnDeployment # {})
          => /\ Len(calls) = 1
             /\ Range(calls[1].allocations) = IdsAt(ExpiredOnDeployment)
             /\ Len(calls[1].allocations) = Cardinality(ExpiredOnDeployment)

\* Two active allocations on the deployment, both passed to
\* closeEligibleAllocations in one decision and both to
\* refreshExpiredAllocations in another.
C19_Witness ==
    /\ DecisionReconciled
    /\ Cardinality(OnDeployment) = 2
    /\ Len(calls) = 1
    /\ calls[1].op \in {"close", "refresh"}
    /\ Len(calls[1].allocations) = 2

\* C20: for a decision d with A the active allocations on d's deployment,
\* exactly one branch is taken: toAllocate false, only
\* closeEligibleAllocations(d, A, epoch); toAllocate true and A empty, only
\* createAllocation(d, mostRecentlyClosed); toAllocate true and A non-empty,
\* never createAllocation, and refreshExpiredAllocations(d, expired) if and
\* only if the expired list is non-empty.
C20_ExactlyOneBranch ==
    DecisionReconciled
    => /\ Len(calls) <= 1
       /\ \A i \in 1..Len(calls) :
              calls[i].net = 1 /\ calls[i].deployment = decisions.deployment.bytes32
       /\ ~decisions.toAllocate
          => /\ Len(calls) = 1
             /\ calls[1].op = "close"
             /\ Range(calls[1].allocations) = IdsAt(OnDeployment)
             /\ calls[1].epoch = chain.epoch
       /\ (decisions.toAllocate /\ OnDeployment = {})
          => /\ Len(calls) = 1
             /\ calls[1].op = "create"
             /\ calls[1].mostRecentlyClosed =
                    (IF chain.closedAllocations = <<>> THEN Null
                     ELSE chain.closedAllocations[1])
       /\ (decisions.toAllocate /\ OnDeployment # {})
          => /\ \A i \in 1..Len(calls) :
                    /\ calls[i].op = "refresh"
                    /\ calls[i].allocations # <<>>
                    /\ Range(calls[i].allocations) = IdsAt(ExpiredOnDeployment)
             /\ (calls # <<>>) <=> (ExpiredOnDeployment # {})

\* toAllocate with active allocations on the deployment, none of them to be
\* refreshed: no operator call is made.
C20_Witness ==
    /\ DecisionReconciled
    /\ decisions.toAllocate
    /\ OnDeployment # {}
    /\ ExpiredOnDeployment = {}
    /\ calls = <<>>
    /\ \E i \in OnDeployment :
           chain.epoch >= chain.allocations[i].createdAtEpoch + LifetimeInForce

\* The lifetime the rule asks for: its allocationLifetime when it sets one,
\* 0 included, and max(1, maxAllocationEpochs - 1) otherwise.
LifetimeAsked ==
    IF decisions.ruleMatch.rule.allocationLifetime # Null
    THEN decisions.ruleMatch.rule.allocationLifetime
    ELSE Max(1, chain.maxAllocationEpochs - 1)

\* The expiry candidates: the allocations on the deployment that have lived
\* for `lifetime` epochs.
CandidatesWith(lifetime) ==
    {i \in OnDeployment : chain.epoch >= chain.allocations[i].createdAtEpoch + lifetime}

RefreshedIds ==
    UNION {Range(calls[i].allocations) : i \in {j \in 1..Len(calls) : calls[j].op = "refresh"}}

\* C21: the lifetime used for expiry is the rule's allocationLifetime whenever
\* the rule sets it, 0 included, and max(1, maxAllocationEpochs - 1) otherwise;
\* an active allocation is an expiry candidate exactly when
\* epoch >= createdAtEpoch + that lifetime. Seen through the refresh: the
\* candidates the contracts do not report closed are the ones refreshed.
C21_LifetimeOfTheRule ==
    (DecisionReconciled /\ decisions.toAllocate /\ OnDeployment # {})
    => RefreshedIds =
         IdsAt({i \in CandidatesWith(LifetimeAsked) :
                   chain.getAllocation[chain.allocations[i].id] # "closed"})

\* C22: an expiry candidate is kept in the expired list exactly when
\* staking.getAllocation reports it open or the read fails; a failed read
\* neither aborts the decision nor drops the candidate, and a candidate
\* reported closed is never passed to refreshExpiredAllocations.
C22_CrossCheck ==
    (DecisionReconciled /\ decisions.toAllocate /\ OnDeployment # {})
    => /\ outcome = "ok"
       /\ \A i \in CandidatesWith(LifetimeInForce) :
              (chain.allocations[i].id \in RefreshedIds)
              <=> (chain.getAllocation[chain.allocations[i].id] \in {"open", "error"})
       /\ \A i \in 1..Len(chain.allocations) :
              chain.getAllocation[chain.allocations[i].id] = "closed"
              => chain.allocations[i].id \notin RefreshedIds

\* Two candidates, one whose read failed and was refreshed, one reported
\* closed and left out.
C22_Witness ==
    /\ DecisionReconciled
    /\ decisions.toAllocate
    /\ \E i, j \in CandidatesWith(LifetimeInForce) :
           /\ chain.getAllocation[chain.allocations[i].id] = "error"
           /\ chain.allocations[i].id \in RefreshedIds
           /\ chain.getAllocation[chain.allocations[j].id] = "closed"
           /\ chain.allocations[j].id \notin RefreshedIds

(***************************************************************************)
(* Properties of a decision taken after the snapshot (SpecReread).         *)
(***************************************************************************)
\* The positions, in the snapshot of the cycle, of the allocations on the
\* decision's deployment.
OnDeploymentInSnapshot ==
    {i \in 1..Len(activeAllocations) :
        activeAllocations[i].subgraphDeployment.id.bytes32 = decisions.deployment.bytes32}

\* C23: create, close or refresh is chosen on the active allocations read
\* from the network monitor when the decision is processed, not on the
\* snapshot of the cycle: createAllocation is called exactly when toAllocate
\* holds and the re-read shows no allocation on the deployment, and
\* closeEligibleAllocations is passed the allocations of the re-read.
C23_DecidedOnReread ==
    DecisionReconciled
    => /\ (\E i \in 1..Len(calls) : calls[i].op = "create")
          <=> (decisions.toAllocate /\ OnDeployment = {})
       /\ \A i \in 1..Len(calls) :
              calls[i].op = "close" => Range(calls[i].allocations) = IdsAt(OnDeployment)
       /\ \A i \in 1..Len(calls) :
              calls[i].op = "refresh" => Range(calls[i].allocations) \subseteq IdsAt(OnDeployment)

\* The snapshot shows no allocation on the deployment, the re-read shows one:
\* createAllocation is not called.
C23_Witness ==
    /\ DecisionReconciled
    /\ decisions.toAllocate
    /\ OnDeploymentInSnapshot = {}
    /\ OnDeployment # {}
    /\ \A i \in 1..Len(calls) : calls[i].op # "create"

(***************************************************************************)
(* Further properties of the deployment reconciler (SpecDeployments).      *)
(***************************************************************************)
\* The effective target set: the target list the call received, each network
\* subgraph deployment and the startup offchain list.
EffectiveTarget ==
    Bytes32Of(before.targetDeployments) \cup NetworkSubgraphIds
        \cup Bytes32Of(offchainSubgraphs)

\* C24: the deployments passed to graphNode.ensure are exactly the effective
\* target set minus the active set, by bytes32.
C24_EnsureIsTargetMinusActive ==
    Reconciled => Ensured = EffectiveTarget \ Bytes32Of(activeDeployments)

\* The part of C24 the code meets: no active deployment is ensured, every
\* deployment ensured is of the effective target set, and every deployment of
\* the received target list or the offchain list that is not active is ensured.
C24_EnsureWithoutNetworkSubgraphs ==
    Reconciled
    => /\ Ensured \subseteq EffectiveTarget \ Bytes32Of(activeDeployments)
       /\ (Bytes32Of(before.targetDeployments) \cup Bytes32Of(offchainSubgraphs))
              \ Bytes32Of(activeDeployments) \subseteq Ensured

\* C27: a cycle leaves the values of the eventuals as they were: the
\* targetDeployments list a call of reconcileDeployments received is the same
\* after the call.
C27_TargetDeploymentsUntouched ==
    Reconciled => targetDeployments = before.targetDeployments

\* The calls of one kind made for deployment d, by position.
CallsOfKind(op, d) == {k \in 1..Len(calls) : calls[k].op = op /\ calls[k].deployment = d}

\* C32: whatever the lists hold, duplicates included, no deployment is both
\* ensured and removed by one reconcileDeployments call, and graphNode.ensure
\* and graphNode.remove are each called at most once per deployment (by
\* bytes32).
C32_DisjointAndOncePerDeployment ==
    Reconciled =>
      /\ Ensured \cap Removed = {}
      /\ \A d \in DeploymentIds :
           /\ Cardinality(CallsOfKind("ensure", d)) <= 1
           /\ Cardinality(CallsOfKind("remove", d)) <= 1

\* The target list names a deployment twice and the active list names another
\* twice; the first was ensured and the second removed.
C32_Witness ==
    /\ Reconciled
    /\ Len(before.targetDeployments) = 2
    /\ before.targetDeployments[1].bytes32 = before.targetDeployments[2].bytes32
    /\ Len(activeDeployments) = 2
    /\ activeDeployments[1].bytes32 = activeDeployments[2].bytes32
    /\ before.targetDeployments[1].bytes32 \in Ensured
    /\ activeDeployments[1].bytes32 \in Removed

(***************************************************************************)
(* Properties of two reconcileDeployments calls in a row (SpecFixpoint).   *)
(***************************************************************************)
\* C33: when every ensure and remove of a reconcileDeployments call has taken
\* effect, the next call, with the resulting active list, the same target and
\* the same eligibleAllocations, calls neither graphNode.ensure nor
\* graphNode.remove.
C33_Fixpoint ==
    phase = "again" => calls = <<>>

\* The first call ensured a deployment and removed another, and the second
\* call was made.
C33_Witness ==
    /\ phase = "again"
    /\ \E k1, k2 \in 1..Len(before.calls) :
         before.calls[k1].op = "ensure" /\ before.calls[k2].op = "remove"

(***************************************************************************)
(* Properties of the work queue of reconcileDeployments (SpecQueue).       *)
(***************************************************************************)
\* C25: when reconcileDeployments returns normally, every graphNode.remove it
\* issued has completed and the queue holds no task, waiting or running;
\* graphNode.ensure calls may still be in progress.
C25_RemovesCompleteOnReturn ==
    queue.stage = "returned"
    => /\ graphNodeOps.remove = 0
       /\ graphNodeOps.removed = queue.remove
       /\ queue.pending = 0
       /\ queue.running = 0

\* reconcileDeployments has returned after its removes, an ensure of its still
\* running.
C25_Witness ==
    /\ queue.stage = "returned"
    /\ queue.remove > 1
    /\ graphNodeOps.removed = queue.remove
    /\ graphNodeOps.ensure > 0

\* C26: while reconcileDeployments runs, at most 10 graph-node operations
\* (ensure or remove) it issued are in progress, however many deployments
\* there are to deploy or remove.
C26_AtMostTenInProgress ==
    queue.stage \in {"deploy", "remove", "onIdle"}
    => graphNodeOps.ensure + graphNodeOps.remove <= concurrency

\* The part of C26 the code meets: at most 10 tasks of the queue run at a
\* time, and at most 10 graphNode.remove calls are in progress.
C26_AtMostTenRemoves ==
    /\ queue.running <= concurrency
    /\ graphNodeOps.remove <= concurrency

\* C34: reconcileDeployments throws only when a graphNode.remove has been
\* rejected; a rejected graphNode.ensure alone never makes it throw, so the
\* pipe body goes on to reconcileActions.
C34_OnlyRemoveAborts ==
    queue.stage = "threw" => graphNodeOps.removeFailed

\* A graphNode.ensure was rejected, no graphNode.remove was, and
\* reconcileDeployments returned after removing.
C34_Witness ==
    /\ queue.stage = "returned"
    /\ queue.remove > 0
    /\ graphNodeOps.ensureFailed
    /\ ~graphNodeOps.removeFailed

(***************************************************************************)
(* Properties of the join that feeds the pipe (SpecJoin).                  *)
(***************************************************************************)
\* C28: the pipe body does not run, and so no reconciliation side effect
\* occurs, before each of currentEpochNumber, maxAllocationEpochs,
\* activeDeployments, targetDeployments, activeAllocations,
\* networkDeploymentAllocationDecisions, recentlyClosedAllocations,
\* claimableAllocations and disputableAllocations has produced a value.
C28_NoRunBeforeEveryInput ==
    (snapshots > 0 \/ cycles # <<>> \/ trace # <<>> \/ body.step # "idle" \/ inflight # {})
    => {"currentEpochNumber", "maxAllocationEpochs", "activeDeployments",
        "targetDeployments", "activeAllocations",
        "networkDeploymentAllocationDecisions", "recentlyClosedAllocations",
        "claimableAllocations", "disputableAllocations"} \subseteq produced

\* Every input has produced a value and a run of the body has gone through its
\* four steps.
C28_Witness ==
    /\ produced = JoinInputs
    /\ \E c \in 1..Len(cycles) :
         /\ cycles[c].result = "completed"
         /\ Succeeded(c, "actions")

(***************************************************************************)
(* Properties of the query server (SpecServer).                            *)
(***************************************************************************)
\* C37: a POST to /subgraphs/id/:id from an address not in the whitelist and
\* without a payment id is answered 400 and reaches neither query processor;
\* a request with a payment id is passed to the paid query processor, from a
\* whitelisted address too; the free query processor is called only for a
\* request from a whitelisted address without a payment id.
C37_PaymentGate ==
    \A i \in 1..Len(handled) :
      LET h == handled[i]
      IN  /\ (h.ip \notin whitelist /\ h.paymentId = "undefined")
               => h.status = 400 /\ h.processor = "none"
          /\ h.paymentId = "string" => h.processor = "paid"
          /\ h.processor = "free" => h.ip \in whitelist /\ h.paymentId = "undefined"

\* A request without payment id from outside the whitelist was refused, and a
\* request with a payment id from a whitelisted address went to the paid
\* query processor.
C37_Witness ==
    \E i, j \in 1..Len(handled) :
      /\ handled[i].ip \notin whitelist
      /\ handled[i].paymentId = "undefined"
      /\ handled[i].status = 400
      /\ handled[j].ip \in whitelist
      /\ handled[j].paymentId = "string"
      /\ handled[j].processor = "paid"
====
